---- MODULE Spec2Model ----
(***************************************************************************)
(* Loungebot: the loyalty-card registry (loungebot/level_cards.py), the    *)
(* visit/broadcast event store (loungebot/admin_stats.py), the admin role  *)
(* store (loungebot/admin_roles.py) and the handlers of bot.py that drive  *)
(* them.                                                                   *)
(*                                                                         *)
(* Conventions.  A Python dict is a function whose DOMAIN is its key set.  *)
(* An optional value (None or x) is the set {} or {x}.  A card number is   *)
(* the 4-character string f"{n:04d}", modelled as the tuple of its         *)
(* characters; a typed text is a tuple of characters too.                  *)
(* Level labels are written without their emoji.  Fields that only feed    *)
(* message texts (first_name, last_name, clicks, last_seen, joined_at,     *)
(* next_number) are left out of the user record, except in the operators   *)
(* named *_full, which carry every key of the stored record.               *)
(***************************************************************************)
EXTENDS Integers, Sequences, FiniteSets, TLC

VARIABLES
  cards,              \* data/level_cards.json: [by_user, by_number]
  users,              \* data/admin_stats.json: "users"
  admins,             \* data/admin_roles.json: "admins"
  now,                \* the wall clock, hours of Tyumen time since 2026-01-01T00:00
  pending_visit_add,  \* bot.py _pending_visit_add: chat id -> back_cb, chats waiting for a card number
  pending_admin_add,  \* bot.py _pending_admin_add: chat ids waiting for a username
  pending_broadcast,  \* bot.py _pending_broadcast: chat id -> [kind, targets, stage, post]
  workers,            \* the threads and processes inside a store call: what each has loaded or opened
  files,              \* the directory of one store: the ".json" and ".tmp" names and what they hold
  recent_callback_keys, \* bot.py _recent_callback_keys: the (user id, data, message id) seen within the window
  ret                 \* what the last call returned / the last handler answered

vars == <<cards, users, admins, now, pending_visit_add, pending_admin_add, pending_broadcast,
          workers, files, recent_callback_keys, ret>>

----------------------------------------------------------------------------
(* Bounds of the model.                                                    *)

\* add_visit_by_user_id is applied only while visits + delta stays within this.
MaxVisits == 5
\* The largest visit count the tier functions are queried with.
MaxTierVisits == 60

\* Users of the card-registry specification.
CardUsers == {101, 102}
\* Deltas handed to add_visit_by_user_id.
Deltas == {-1, 0, 1, 3}
\* Outcomes of rng.randint(10, 9998) the model draws.
RandomDraws == {10, 1111, 9998}
\* staff_level arguments: None, a label the bot passes, a blank one.
StaffLevelArgs == {{}, {"ADMIN"}, {"  "}}
\* staff_discount arguments: None, 0, 15.
StaffDiscountArgs == {{}, {0}, {15}}

----------------------------------------------------------------------------
(* Generic helpers.                                                        *)

None == {}
Some(x) == {x}
Get(o) == CHOOSE x \in o : TRUE
Put(f, k, v) == (k :> v) @@ f
EmptyDict == [x \in {} |-> {}]
Pop(f, k) == [x \in (DOMAIN f) \ {k} |-> f[x]]

\* The callers of the stores that can be inside a call at the same time: TeleBot
\* hands updates to a pool of worker threads, and the second bot is a process
\* of its own on the same data files.
WorkerIds == {1, 2}
\* A store call in progress: <<the operation, the user it is for>>.
NoJob == <<"", 0>>
JobOp(job) == job[1]
JobUser(job) == job[2]
\* A worker outside every store call.  Inside one it holds the document as it
\* was loaded and as it is after the change in memory (job, loaded, data), or
\* the ".tmp" file it has opened (inode, doc, written).
Idle == [pc |-> "idle", job |-> NoJob, loaded |-> EmptyDict, data |-> EmptyDict,
         inode |-> 0, doc |-> 0, written |-> 0]
IdleWorkers == [w \in WorkerIds |-> Idle]
\* No data file exists: neither name is bound, no save has begun.
NoFiles == [tmp |-> None, target |-> None, content |-> EmptyDict, saves |-> 0]

\* Return values: None, a raised RuntimeError, a LevelCard.
RetNone == [kind |-> "none"]
RetError == [kind |-> "error"]
RetCard(c) == [kind |-> "card", card |-> c]
\* ret: the operation that ran last, the user it was called for, what it returned.
Ran(op, user_id, r) == [op |-> op, user |-> user_id, val |-> r]

----------------------------------------------------------------------------
(* level_cards.py                                                          *)

TIERS == << <<1, "IRON", 3>>, <<5, "BRONZE", 5>>, <<15, "SILVER", 7>>, <<35, "GOLD", 10>> >>

\* The for loop of tier_for_visits from entry i on, with its break.
RECURSIVE TierLoop(_, _, _, _)
TierLoop(v, i, level, discount) ==
  IF i > Len(TIERS) THEN <<level, discount>>
  ELSE IF v >= TIERS[i][1] THEN TierLoop(v, i + 1, TIERS[i][2], TIERS[i][3])
  ELSE <<level, discount>>

tier_for_visits(visits) ==
  IF visits <= 0 THEN <<"-", 0>>
  ELSE TierLoop(visits, 1, TIERS[1][2], TIERS[1][3])

\* The for loop of next_tier_info from entry i on.
RECURSIVE NextTierLoop(_, _)
NextTierLoop(v, i) ==
  IF i > Len(TIERS) THEN None
  ELSE IF v < TIERS[i][1] THEN Some(<<TIERS[i][2], TIERS[i][1] - v>>)
  ELSE NextTierLoop(v, i + 1)

\* next_tier_info with "v <= threshold" for its test "v < threshold".
next_tier_info_not_strict(visits) ==
  IF \A i \in 1..Len(TIERS) : visits > TIERS[i][1] THEN None
  ELSE LET i == CHOOSE k \in 1..Len(TIERS) :
                  visits <= TIERS[k][1] /\ \A m \in 1..(k - 1) : visits > TIERS[m][1]
       IN  Some(<<TIERS[i][2], TIERS[i][1] - visits>>)

next_tier_info(visits) == NextTierLoop(visits, 1)

\* str.strip() on the labels the model uses.
Strip(s) == IF s = "  " THEN "" ELSE s

\* recalc with the staff branch lost: a staff card is tiered by its visits.
recalc_ignores_staff(rec) ==
  [rec EXCEPT !.level = tier_for_visits(rec.visits)[1],
              !.discount = tier_for_visits(rec.visits)[2]]

recalc(rec) ==
  IF rec.staff_gold
  THEN [rec EXCEPT
          !.level = IF rec.staff_level # None /\ Strip(Get(rec.staff_level)) # ""
                    THEN Strip(Get(rec.staff_level))
                    ELSE "ADMIN",
          !.discount = IF rec.staff_discount = None \/ Get(rec.staff_discount) = 0
                       THEN 10
                       ELSE Get(rec.staff_discount)]
  ELSE [rec EXCEPT !.level = tier_for_visits(rec.visits)[1],
                   !.discount = tier_for_visits(rec.visits)[2]]

\* The decimal digit characters, in order.
Digits == <<"0", "1", "2", "3", "4", "5", "6", "7", "8", "9">>
DigitChar(d) == Digits[d + 1]

\* f"{n:04d}" for 0 <= n <= 9999.
Fmt04(n) ==
  <<DigitChar((n \div 1000) % 10), DigitChar((n \div 100) % 10),
    DigitChar((n \div 10) % 10), DigitChar(n % 10)>>

\* is_bad_number with the repdigit test lost.
is_bad_number_never(n) == FALSE

is_bad_number(n) == Cardinality({Fmt04(n)[i] : i \in 1..4}) = 1

\* The result of _alloc_random_card_number when nothing is free.
NoNumber == <<>>

\* The digit a character denotes, and the number a 4-digit string denotes.
DigitOf(ch) == (CHOOSE d \in 1..10 : Digits[d] = ch) - 1
NumberOf(s) == 1000 * DigitOf(s[1]) + 100 * DigitOf(s[2]) + 10 * DigitOf(s[3]) + DigitOf(s[4])

\* Every card number the allocation may hand out: f"{n:04d}" for the numbers of
\* 0010..9998 that are no repdigit.
AllKeys == {Fmt04(n) : n \in {k \in 10..9998 : ~is_bad_number(k)}}

\* The first number of n..9998 whose key is one of free.
FirstOf(n, free) ==
  IF \A key \in free : NumberOf(key) < n
  THEN NoNumber
  ELSE Fmt04(CHOOSE k \in n..9998 :
               Fmt04(k) \in free /\ \A m \in n..(k - 1) : Fmt04(m) \notin free)

\* The fallback scan of _alloc_random_card_number from n on: the first number
\* of n..9998 that is neither bad nor used.
AllocScan(n, used) ==
  Get({FirstOf(n, free) : free \in {{key \in AllKeys : key \notin used}}})

\* _alloc_random_card_number without the fallback scan.
alloc_random_card_number_no_scan(by_number, draws) ==
  LET used == DOMAIN by_number
      hits == {Fmt04(n) : n \in {d \in draws : ~is_bad_number(d)}} \ used
  IN  hits \cup {NoNumber}

\* Every number _alloc_random_card_number can return for this by_number: a random
\* attempt that is neither bad nor used, or (all attempts having failed) the scan;
\* NoNumber stands for the RuntimeError.
alloc_random_card_number(by_number, draws) ==
  LET used == DOMAIN by_number
      hits == {Fmt04(n) : n \in {d \in draws : ~is_bad_number(d)}} \ used
  IN  hits \cup {AllocScan(10, used)}

to_card(card_number, rec) ==
  [card_number |-> card_number,
   user_id     |-> rec.user_id,
   level       |-> IF rec.level = "" THEN "IRON" ELSE rec.level,
   discount    |-> IF rec.discount = 0 THEN 3 ELSE rec.discount,
   visits      |-> rec.visits,
   staff_gold  |-> rec.staff_gold]

HasCard(c, user_id) ==
  user_id \in DOMAIN c.by_user /\ c.by_user[user_id] \in DOMAIN c.by_number

\* ensure_level_card with the lookup of the existing card lost: it always allocates.
ensure_level_card_realloc(c, user_id, alloc) ==
  IF alloc = NoNumber
  THEN [cards |-> c, ret |-> RetError]
  ELSE LET rec == recalc([user_id |-> user_id, level |-> "IRON", discount |-> 3,
                          visits |-> 0, staff_gold |-> FALSE,
                          staff_level |-> None, staff_discount |-> None])
       IN  [cards |-> [by_user   |-> Put(c.by_user, user_id, alloc),
                       by_number |-> Put(c.by_number, alloc, rec)],
            ret   |-> RetCard(to_card(alloc, rec))]

\* alloc is the number _alloc_random_card_number returns if it is called.
ensure_level_card(c, user_id, alloc) ==
  IF HasCard(c, user_id)
  THEN LET num == c.by_user[user_id]
           rec == recalc(c.by_number[num])
       IN  [cards |-> [c EXCEPT !.by_number = Put(c.by_number, num, rec)],
            ret   |-> RetCard(to_card(num, rec))]
  ELSE IF alloc = NoNumber
  THEN [cards |-> c, ret |-> RetError]
  ELSE LET rec == recalc([user_id |-> user_id, level |-> "IRON", discount |-> 3,
                          visits |-> 0, staff_gold |-> FALSE,
                          staff_level |-> None, staff_discount |-> None])
       IN  [cards |-> [by_user   |-> Put(c.by_user, user_id, alloc),
                       by_number |-> Put(c.by_number, alloc, rec)],
            ret   |-> RetCard(to_card(alloc, rec))]

find_card_by_number(c, card_number) ==
  IF card_number \in DOMAIN c.by_number
  THEN RetCard(to_card(card_number, c.by_number[card_number]))
  ELSE RetNone

find_card_by_user_id(c, user_id) ==
  IF HasCard(c, user_id)
  THEN RetCard(to_card(c.by_user[user_id], c.by_number[c.by_user[user_id]]))
  ELSE RetNone

\* add_visit_by_user_id with the delta <= 0 test lost.
add_visit_any_delta(c, user_id, delta) ==
  IF ~HasCard(c, user_id) THEN [cards |-> c, ret |-> RetNone]
  ELSE LET num == c.by_user[user_id]
           old == c.by_number[num]
           rec == recalc([old EXCEPT !.visits = old.visits + delta])
       IN  [cards |-> [c EXCEPT !.by_number = Put(c.by_number, num, rec)],
            ret   |-> RetCard(to_card(num, rec))]

add_visit_by_user_id(c, user_id, delta) ==
  IF delta <= 0 THEN [cards |-> c, ret |-> find_card_by_user_id(c, user_id)]
  ELSE IF ~HasCard(c, user_id) THEN [cards |-> c, ret |-> RetNone]
  ELSE LET num == c.by_user[user_id]
           old == c.by_number[num]
           rec == recalc([old EXCEPT !.visits = old.visits + delta])
       IN  [cards |-> [c EXCEPT !.by_number = Put(c.by_number, num, rec)],
            ret   |-> RetCard(to_card(num, rec))]

set_staff_gold_by_user_id(c, user_id, staff_level, staff_discount, alloc) ==
  LET e == ensure_level_card(c, user_id, alloc)
  IN  IF e.ret = RetError THEN e
      ELSE LET num == e.cards.by_user[user_id]
               old == e.cards.by_number[num]
               rec == recalc([old EXCEPT
                        !.staff_gold = TRUE,
                        !.staff_level = IF staff_level # None /\ Get(staff_level) # ""
                                        THEN staff_level ELSE old.staff_level,
                        !.staff_discount = IF staff_discount # None
                                           THEN staff_discount ELSE old.staff_discount])
           IN  [cards |-> [e.cards EXCEPT !.by_number = Put(e.cards.by_number, num, rec)],
                ret   |-> RetCard(to_card(num, rec))]

\* clear_staff_gold_by_user_id with the _recalc call lost: level and discount stay.
clear_staff_gold_keeps_level(c, user_id) ==
  IF ~HasCard(c, user_id) THEN [cards |-> c, ret |-> RetNone]
  ELSE LET num == c.by_user[user_id]
           old == c.by_number[num]
           rec == [old EXCEPT !.staff_gold = FALSE,
                              !.staff_level = None,
                              !.staff_discount = None]
       IN  [cards |-> [c EXCEPT !.by_number = Put(c.by_number, num, rec)],
            ret   |-> RetCard(to_card(num, rec))]

clear_staff_gold_by_user_id(c, user_id) ==
  IF ~HasCard(c, user_id) THEN [cards |-> c, ret |-> RetNone]
  ELSE LET num == c.by_user[user_id]
           old == c.by_number[num]
           rec == recalc([old EXCEPT !.staff_gold = FALSE,
                                     !.staff_level = None,
                                     !.staff_discount = None])
       IN  [cards |-> [c EXCEPT !.by_number = Put(c.by_number, num, rec)],
            ret   |-> RetCard(to_card(num, rec))]

----------------------------------------------------------------------------
(* admin_stats.py: the event store.  A timestamp is an instant, counted in *)
(* hours of Tyumen time since 2026-01-01T00:00; the store keeps it as the  *)
(* ISO string of an aware datetime, which datetime.fromisoformat maps back *)
(* to the same instant.                                                    *)

VISIT_LEGACY_SRC == "lounge"

\* Start of the business day window that holds instant t: 06:00 of t's day, or of
\* the day before when t is earlier than 06:00.
tyumen_window_start_same_date(t) == (t \div 24) * 24 + 6

tyumen_window_start(t) ==
  LET start_today == (t \div 24) * 24 + 6
  IN  IF t < start_today THEN start_today - 24 ELSE start_today

\* (source or "").strip().lower() or None, on the lower-case tags the model uses.
norm_source(source) ==
  IF source = None \/ Strip(Get(source)) = "" THEN None ELSE source

event_src(raw) ==
  IF raw.src # None /\ Strip(Get(raw.src)) # "" THEN Get(raw.src) ELSE VISIT_LEGACY_SRC

\* The record touch_user, inc_click, add_visit_marked and record_broadcast_sent
\* create for an unknown user.
NewUserRec(username, visits, visit_events) ==
  [username |-> username, unsubscribed_at |-> None, visits |-> visits,
   visit_events |-> visit_events, broadcast_events |-> <<>>]

touch_user(us, user_id, username) ==
  IF user_id \notin DOMAIN us
  THEN Put(us, user_id, NewUserRec(username, 0, <<>>))
  ELSE Put(us, user_id, [us[user_id] EXCEPT !.username = username,
                                            !.unsubscribed_at = None])

inc_click(us, user_id) ==
  IF user_id \notin DOMAIN us
  THEN Put(us, user_id, NewUserRec(None, 0, <<>>))
  ELSE us

\* add_visit_marked that appends the event and leaves the counter.
add_visit_marked_event_only(us, user_id, admin_id, source, t) ==
  LET src == IF norm_source(source) = None THEN VISIT_LEGACY_SRC ELSE Get(source)
      ev  == [ts |-> t, by |-> admin_id, src |-> Some(src)]
  IN  IF user_id \notin DOMAIN us
      THEN Put(us, user_id, NewUserRec(None, 0, <<ev>>))
      ELSE Put(us, user_id, [us[user_id] EXCEPT !.visit_events = Append(@, ev)])

add_visit_marked(us, user_id, admin_id, source, t) ==
  LET src == IF norm_source(source) = None THEN VISIT_LEGACY_SRC ELSE Get(source)
      ev  == [ts |-> t, by |-> admin_id, src |-> Some(src)]
  IN  IF user_id \notin DOMAIN us
      THEN Put(us, user_id, NewUserRec(None, 1, <<ev>>))
      ELSE Put(us, user_id, [us[user_id] EXCEPT
                               !.visits = @ + 1,
                               !.visit_events = Append(@, ev)])

\* The event counts for the caller's source scope (every event when source is None).
SrcMatches(raw, source) ==
  norm_source(source) = None \/ event_src(raw) = Get(norm_source(source))

can_add_visit_today_tyumen(us, user_id, source, t) ==
  IF user_id \notin DOMAIN us THEN TRUE
  ELSE LET events == us[user_id].visit_events
           start  == tyumen_window_start(t)
           end    == start + 24
       IN  ~ \E i \in 1..Len(events) :
               /\ SrcMatches(events[i], source)
               /\ start <= events[i].ts /\ events[i].ts < end

active_user_ids(us) == {uid \in DOMAIN us : us[uid].unsubscribed_at = None}

----------------------------------------------------------------------------
(* admin_stats.py: the user record with every key.  The operators above     *)
(* keep the keys the flows of bot.py read; the operators below keep all of  *)
(* them.  A key the record lacks is None; a visit event is the record       *)
(* [ts, by, src], with by and src None for the bare timestamp add_visit     *)
(* appends.                                                                 *)

UserInfo(first_name, last_name, username) ==
  [first_name |-> first_name, last_name |-> last_name, username |-> username]

\* rec.get("visit_events") or [], rec.get("broadcast_events") or []
events_of(raw) == IF raw = None THEN <<>> ELSE Get(raw)

\* The record the mutators write for an unknown user; touch_user and
\* record_broadcast_sent alone write the key broadcast_events.
StoredUser(user, t, clicks, visit_events, last_click_at, broadcast_events) ==
  [first_name |-> user.first_name, last_name |-> user.last_name,
   username |-> user.username, joined_at |-> t, last_seen |-> t,
   unsubscribed_at |-> None, clicks |-> clicks, visits |-> Len(visit_events),
   visit_events |-> Some(visit_events), last_click_at |-> last_click_at,
   broadcast_events |-> broadcast_events]

\* setdefault(key, default) on an optional key.
SetDefault(raw, default) == IF raw = None THEN Some(default) ELSE raw

\* touch_user that leaves unsubscribed_at as it is.
touch_user_full_stays_unsubscribed(us, user_id, user, t) ==
  IF user_id \notin DOMAIN us
  THEN Put(us, user_id, StoredUser(user, t, 0, <<>>, None, Some(<<>>)))
  ELSE Put(us, user_id,
           [us[user_id] EXCEPT
              !.first_name = user.first_name, !.last_name = user.last_name,
              !.username = user.username, !.last_seen = t,
              !.visit_events = SetDefault(@, <<>>),
              !.broadcast_events = SetDefault(@, <<>>)])

touch_user_full(us, user_id, user, t) ==
  IF user_id \notin DOMAIN us
  THEN Put(us, user_id, StoredUser(user, t, 0, <<>>, None, Some(<<>>)))
  ELSE Put(us, user_id,
           [us[user_id] EXCEPT
              !.first_name = user.first_name, !.last_name = user.last_name,
              !.username = user.username, !.last_seen = t,
              !.unsubscribed_at = None,
              !.visit_events = SetDefault(@, <<>>),
              !.broadcast_events = SetDefault(@, <<>>)])

inc_click_full(us, user_id, t) ==
  IF user_id \notin DOMAIN us
  THEN Put(us, user_id, StoredUser(UserInfo(None, None, None), t, 1, <<>>, Some(t), None))
  ELSE Put(us, user_id,
           [us[user_id] EXCEPT
              !.clicks = @ + 1, !.last_seen = t, !.last_click_at = Some(t),
              !.visit_events = SetDefault(@, <<>>)])

mark_unsubscribed(us, user_id, t) ==
  IF user_id \notin DOMAIN us THEN us
  ELSE Put(us, user_id, [us[user_id] EXCEPT !.unsubscribed_at = Some(t)])

add_visit(us, user_id, t) ==
  LET ev == [ts |-> t, by |-> None, src |-> None]
  IN  IF user_id \notin DOMAIN us
      THEN Put(us, user_id, StoredUser(UserInfo(None, None, None), t, 0, <<ev>>, None, None))
      ELSE Put(us, user_id,
               [us[user_id] EXCEPT
                  !.visits = @ + 1,
                  !.visit_events = Some(Append(events_of(@), ev))])

\* add_visit_marked that skips a user who has a visit in the current business
\* day.
add_visit_marked_full_once_a_day(us, user_id, admin_id, source, t) ==
  LET src == IF norm_source(source) = None THEN VISIT_LEGACY_SRC ELSE Get(source)
      ev  == [ts |-> t, by |-> Some(admin_id), src |-> Some(src)]
  IN  IF user_id \notin DOMAIN us
      THEN Put(us, user_id, StoredUser(UserInfo(None, None, None), t, 0, <<ev>>, None, None))
      ELSE IF \E i \in 1..Len(events_of(us[user_id].visit_events)) :
                tyumen_window_start(events_of(us[user_id].visit_events)[i].ts)
                  = tyumen_window_start(t)
      THEN us
      ELSE Put(us, user_id,
               [us[user_id] EXCEPT
                  !.visits = @ + 1,
                  !.visit_events = Some(Append(events_of(@), ev))])

add_visit_marked_full(us, user_id, admin_id, source, t) ==
  LET src == IF norm_source(source) = None THEN VISIT_LEGACY_SRC ELSE Get(source)
      ev  == [ts |-> t, by |-> Some(admin_id), src |-> Some(src)]
  IN  IF user_id \notin DOMAIN us
      THEN Put(us, user_id, StoredUser(UserInfo(None, None, None), t, 0, <<ev>>, None, None))
      ELSE Put(us, user_id,
               [us[user_id] EXCEPT
                  !.visits = @ + 1,
                  !.visit_events = Some(Append(events_of(@), ev))])

record_broadcast_sent_full(us, user_id, kind, source, t) ==
  LET ev == [ts |-> t, kind |-> kind, src |-> norm_source(source)]
  IN  IF user_id \notin DOMAIN us
      THEN Put(us, user_id, StoredUser(UserInfo(None, None, None), t, 0, <<>>, None, Some(<<ev>>)))
      ELSE Put(us, user_id,
               [us[user_id] EXCEPT
                  !.broadcast_events = Some(Append(events_of(@), ev))])

----------------------------------------------------------------------------
(* admin_roles.py: the role store, username -> [user_id].                  *)

\* value.strip(), a leading @ removed, lower(): on the usernames the model uses.
normalize_username(value) ==
  CASE value \in {"Alice", "@alice", "@Alice", " @Alice "} -> "alice"
    [] value \in {"Bobby", "@bobby"} -> "bobby"
    [] value \in {"@", " "} -> ""
    [] OTHER -> value

\* is_admin_user that looks for the synced user id whatever the username is.
is_admin_user_id_first(ad, user_id, username) ==
  \/ \E k \in DOMAIN ad : ad[k].user_id = Some(user_id)
  \/ /\ username # None /\ Get(username) # ""
     /\ normalize_username(Get(username)) \in DOMAIN ad

\* username is None or a username.
is_admin_user(ad, user_id, username) ==
  IF username # None /\ Get(username) # ""
  THEN normalize_username(Get(username)) \in DOMAIN ad
  ELSE \E k \in DOMAIN ad : ad[k].user_id = Some(user_id)

sync_from_user(ad, user_id, username) ==
  IF username = None \/ Get(username) = "" THEN ad
  ELSE IF normalize_username(Get(username)) \notin DOMAIN ad THEN ad
  ELSE Put(ad, normalize_username(Get(username)), [user_id |-> Some(user_id)])

admin_user_ids(ad) == {Get(ad[k].user_id) : k \in {a \in DOMAIN ad : ad[a].user_id # None}}

----------------------------------------------------------------------------
(* bot.py: staff tests and the synchronisation every handled update runs.  *)

\* SUPERADMIN_IDS is unset: the one default id.
superadmin_ids == {864921585}
\* The Telegram accounts that take part in the visit flow (the owner and a guest),
\* and the profile usernames of the accounts the model knows; 103 has none.
Users == {864921585, 101}
TgUsername(u) ==
  CASE u = 864921585 -> Some("owner")
    [] u = 101 -> Some("Alice")
    [] u = 102 -> Some("Bobby")
    [] OTHER -> None

BOT_SOURCE == "lounge"
\* BOT_SOURCE of the second bot that shares the data files.
OTHER_BOT_SOURCE == "rent"

is_superadmin(user_id) == user_id \in superadmin_ids

is_staff(ad, user_id, username) ==
  is_superadmin(user_id) \/ is_admin_user(ad, user_id, username)

staff_level_label(ad, user_id, username) ==
  IF is_superadmin(user_id) THEN Some("SUPERADMIN")
  ELSE IF is_admin_user(ad, user_id,
                        IF username = None \/ Get(username) = "" THEN None
                        ELSE Some(normalize_username(Get(username))))
  THEN Some("ADMIN")
  ELSE None

\* _staff_user_ids_known without the match of stored usernames.
staff_user_ids_synced_only(ad, us) == superadmin_ids \cup admin_user_ids(ad)

staff_user_ids_known(ad, us) ==
  superadmin_ids \cup admin_user_ids(ad)
    \cup {uid \in active_user_ids(us) :
            /\ us[uid].username # None
            /\ normalize_username(Get(us[uid].username)) # ""
            /\ normalize_username(Get(us[uid].username)) \in DOMAIN ad}

\* What _message_guard and _callback_guard do for the sender of an update that is
\* not a duplicate: touch_user, sync_from_user, the staff card set or cleared,
\* inc_click.  Returns the three stores.
\* The guard without the staff card of a staff sender.
guard_sync_no_staff_card(us, ad, c, user_id, username, alloc) ==
  LET us1 == touch_user(us, user_id, username)
      ad1 == sync_from_user(ad, user_id, username)
      c1  == IF is_staff(ad1, user_id, username)
             THEN c
             ELSE clear_staff_gold_by_user_id(c, user_id).cards
  IN  [users |-> inc_click(us1, user_id), admins |-> ad1, cards |-> c1]

guard_sync(us, ad, c, user_id, username, alloc) ==
  LET us1 == touch_user(us, user_id, username)
      ad1 == sync_from_user(ad, user_id, username)
      lab == staff_level_label(ad1, user_id, username)
      c1  == IF is_staff(ad1, user_id, username)
             THEN set_staff_gold_by_user_id(c, user_id,
                    IF lab = None THEN Some("ADMIN") ELSE lab, None, alloc).cards
             ELSE clear_staff_gold_by_user_id(c, user_id).cards
  IN  [users |-> inc_click(us1, user_id), admins |-> ad1, cards |-> c1]

\* The self-award test lost.
is_self_award_never(admin_id, card_user_id) == FALSE

\* Lines 2754-2756 of handle_admin_visit_input: the sender owns the card.
is_self_award(admin_id, card_user_id) == admin_id # 0 /\ admin_id = card_user_id

\* Every text passes for a number.
isdigit_always(text) == TRUE

\* str.isdigit() on a text.
isdigit(text) ==
  Len(text) > 0 /\ \A i \in 1..Len(text) : \E d \in 1..10 : Digits[d] = text[i]

\* Lines 2765-2791 of handle_admin_visit_input: the once-a-day test, then the visit
\* recorded in the event store and on the card.  Returns the two stores and the answer.
confirm_visit(us, c, target, admin_id, source, t) ==
  IF ~can_add_visit_today_tyumen(us, target, Some(source), t)
  THEN [users |-> us, cards |-> c, reply |-> "duplicate"]
  ELSE [users |-> add_visit_marked(us, target, admin_id, Some(source), t),
        cards |-> add_visit_by_user_id(c, target, 1).cards,
        reply |-> "counted"]

----------------------------------------------------------------------------
(* The calendar of Tyumen time for instants of 2026 and 2027 (no leap year, *)
(* no change of the UTC offset).                                            *)

DaysBeforeMonth == <<0, 31, 59, 90, 120, 151, 181, 212, 243, 273, 304, 334>>

\* datetime(year, month, 1, tzinfo=tz) as an instant.
month_start(year, month) == ((year - 2026) * 365 + DaysBeforeMonth[month]) * 24

\* The year and month of the local date of instant t.
tyumen_date(t) ==
  LET day == (t \div 24) % 365
  IN  [year  |-> 2026 + (t \div 24) \div 365,
       month |-> CHOOSE m \in 1..12 :
                   /\ DaysBeforeMonth[m] <= day
                   /\ (m = 12 \/ day < DaysBeforeMonth[m + 1])]

prev_month(dt) ==
  IF dt.month = 1 THEN <<dt.year - 1, 12>> ELSE <<dt.year, dt.month - 1>>

\* Python's order of (year, month) tuples.
MonthBefore(a, b) == a[1] < b[1] \/ (a[1] = b[1] /\ a[2] < b[2])

----------------------------------------------------------------------------
(* admin_stats.top_users_by_visits_in_month and the monthly bonus of bot.py *)

\* The number of user uid's events of the source scope inside [start, end).
CountEvents(us, uid, source, start, end) ==
  Cardinality({i \in 1..Len(us[uid].visit_events) :
                 /\ SrcMatches(us[uid].visit_events[i], source)
                 /\ start <= us[uid].visit_events[i].ts
                 /\ us[uid].visit_events[i].ts < end})

\* rows.sort(key=(visits, user_id), reverse=True): the keys are distinct.
RECURSIVE SortRows(_, _)
SortRows(uids, counts) ==
  IF uids = {} THEN <<>>
  ELSE LET top == CHOOSE u \in uids :
                    \A w \in uids :
                      \/ counts[w] < counts[u]
                      \/ (counts[w] = counts[u] /\ w <= u)
       IN  <<[user_id |-> top, visits |-> counts[top]]>> \o SortRows(uids \ {top}, counts)

top_users_by_visits_in_month(us, year, month, source, limit, active_only) ==
  LET m      == IF month < 1 THEN 1 ELSE IF month > 12 THEN 12 ELSE month
      lim    == IF limit <= 0 THEN 3 ELSE limit
      start  == month_start(year, m)
      end    == IF m = 12 THEN month_start(year + 1, 1) ELSE month_start(year, m + 1)
      seen   == {uid \in DOMAIN us :
                   /\ ~(active_only /\ us[uid].unsubscribed_at # None)
                   /\ Len(us[uid].visit_events) > 0}
      counts == [uid \in seen |-> CountEvents(us, uid, source, start, end)]
      rows   == SortRows({uid \in seen : counts[uid] > 0}, counts)
  IN  SubSeq(rows, 1, IF Len(rows) < lim THEN Len(rows) ELSE lim)

----------------------------------------------------------------------------
(* top_users_by_visits_in_month over the file as json.loads returns it: a   *)
(* key is a string, a value need not be a record, an event is a record, an  *)
(* ISO string of the time before records, or empty, and a timestamp is text *)
(* that datetime.fromisoformat may or may not accept.                       *)

\* The UTC offset of Tyumen time, in hours.
TyumenOffset == 5

\* A timestamp text: an ISO date-time that reads `local` hours (of the model's
\* calendar) on the clock of a zone with the given UTC offset, None for a text
\* without offset; a text that is no date-time; an empty text.
IsoTs(local, offset) == [form |-> "iso", local |-> local, offset |-> offset]
BadTs == [form |-> "bad", local |-> 0, offset |-> None]
NoTs == [form |-> "none", local |-> 0, offset |-> None]

\* An event as a record with "ts" and maybe "src", as a bare timestamp text,
\* and the empty entry.
DictEvent(ts, src) == [form |-> "dict", ts |-> ts, src |-> src]
StrEvent(ts) == [form |-> "str", ts |-> ts, src |-> None]
NoEvent == [form |-> "none", ts |-> NoTs, src |-> None]

\* A value of "users": a record, or something else (a list).
DictRec(unsubscribed_at, visit_events) ==
  [form |-> "dict", unsubscribed_at |-> unsubscribed_at, visit_events |-> visit_events]
ListRec == [form |-> "list", unsubscribed_at |-> None, visit_events |-> <<>>]

\* The number a string of decimal digits denotes.
RECURSIVE DecimalOf(_)
DecimalOf(text) ==
  IF text = <<>> THEN 0
  ELSE 10 * DecimalOf(SubSeq(text, 1, Len(text) - 1)) + DigitOf(text[Len(text)])

\* int(uid): None stands for the ValueError.
int_of(uid) == IF isdigit(uid) THEN Some(DecimalOf(uid)) ELSE None

\* _parse_event_ts that reads every clock as Tyumen's, whatever its offset.
parse_event_ts_keeps_clock(raw_ts) ==
  IF raw_ts.form # "iso" THEN None ELSE Some(raw_ts.local)

\* _parse_event_ts, then astimezone(tz): the instant in hours of Tyumen time,
\* None when the text is empty or no date-time.
parse_event_ts(raw_ts) ==
  IF raw_ts.form = "none" THEN None
  ELSE IF raw_ts.form = "bad" THEN None
  ELSE IF raw_ts.offset = None THEN Some(raw_ts.local)
  ELSE Some(raw_ts.local - Get(raw_ts.offset) + TyumenOffset)

\* _event_src on an entry of the file.
event_src_raw(raw) ==
  IF raw.form = "dict" /\ raw.src # None /\ Strip(Get(raw.src)) # ""
  THEN Get(raw.src) ELSE VISIT_LEGACY_SRC

\* The body of the loop over events for one entry: 1 when it counts.
counts_in_month(raw, src, start, end) ==
  IF raw.form = "none" THEN 0
  ELSE IF src # None /\ event_src_raw(raw) # Get(src) THEN 0
  ELSE LET ts == parse_event_ts(raw.ts)
       IN  IF ts = None THEN 0
           ELSE IF start <= Get(ts) /\ Get(ts) < end THEN 1 ELSE 0

\* The loop over the events of one record.
RECURSIVE CountRaw(_, _, _, _)
CountRaw(events, src, start, end) ==
  IF events = <<>> THEN 0
  ELSE counts_in_month(Head(events), src, start, end) + CountRaw(Tail(events), src, start, end)

\* The rows for the counted records: items[i] for i in seen.
RowsOf(items, seen, src, start, end, lim) ==
  LET ids    == {Get(int_of(items[i].uid)) : i \in seen}
      counts == [id \in ids |->
                   LET i == CHOOSE k \in seen : int_of(items[k].uid) = Some(id)
                   IN  CountRaw(items[i].rec.visit_events, src, start, end)]
      rows   == SortRows({id \in ids : counts[id] > 0}, counts)
  IN  SubSeq(rows, 1, IF Len(rows) < lim THEN Len(rows) ELSE lim)

\* top_users_by_visits_in_month with a bad key or value ending the loop over
\* users: what comes after it in the file is not counted.
top_users_by_visits_in_month_raw_aborts(items, year, month, source, limit, active_only) ==
  LET m     == IF month < 1 THEN 1 ELSE IF month > 12 THEN 12 ELSE month
      start == month_start(year, m)
      end   == IF m = 12 THEN month_start(year + 1, 1) ELSE month_start(year, m + 1)
      bad   == {i \in 1..Len(items) : items[i].rec.form # "dict" \/ int_of(items[i].uid) = None}
      seen  == {i \in 1..Len(items) :
                  /\ \A k \in bad : i < k
                  /\ ~(active_only /\ items[i].rec.unsubscribed_at # None)
                  /\ Len(items[i].rec.visit_events) > 0}
  IN  RowsOf(items, seen, norm_source(source), start, end, IF limit <= 0 THEN 3 ELSE limit)

\* items is data["users"].items(): the pairs [uid, rec] in the order of the file.
top_users_by_visits_in_month_raw(items, year, month, source, limit, active_only) ==
  LET m     == IF month < 1 THEN 1 ELSE IF month > 12 THEN 12 ELSE month
      start == month_start(year, m)
      end   == IF m = 12 THEN month_start(year + 1, 1) ELSE month_start(year, m + 1)
      seen  == {i \in 1..Len(items) :
                  /\ items[i].rec.form = "dict"
                  /\ ~(active_only /\ items[i].rec.unsubscribed_at # None)
                  /\ Len(items[i].rec.visit_events) > 0
                  /\ int_of(items[i].uid) # None}
  IN  RowsOf(items, seen, norm_source(source), start, end, IF limit <= 0 THEN 3 ELSE limit)

BONUS_BY_PLACE == <<10, 6, 3>>
MEDAL_BY_PLACE == <<"medal1", "medal2", "medal3">>

\* Staff take part in competitions: the staff test always passes.
is_eligible_always(us, ad, user_id) == TRUE

is_eligible_for_competitions(us, ad, user_id) ==
  user_id \notin staff_user_ids_known(ad, us)

\* The loop of _monthly_bonus_map_for_prev_month over rows from row i on.
RECURSIVE BonusLoop(_, _, _, _, _, _)
BonusLoop(us, ad, rows, i, place, out) ==
  IF i > Len(rows) THEN out
  ELSE IF ~is_eligible_for_competitions(us, ad, rows[i].user_id)
  THEN BonusLoop(us, ad, rows, i + 1, place, out)
  ELSE LET out1 == Put(out, rows[i].user_id,
                       IF place + 1 \in DOMAIN BONUS_BY_PLACE
                       THEN BONUS_BY_PLACE[place + 1] ELSE 0)
       IN  IF place + 1 >= 3 THEN out1
           ELSE BonusLoop(us, ad, rows, i + 1, place + 1, out1)

\* Without the launch test: the previous month's rows always count.
monthly_bonus_map_no_launch(us, ad, t) ==
  LET prev == prev_month(tyumen_date(t))
  IN  BonusLoop(us, ad,
                top_users_by_visits_in_month(us, prev[1], prev[2],
                                             Some(BOT_SOURCE), 3, FALSE),
                1, 0, EmptyDict)

monthly_bonus_map_for_prev_month(us, ad, t) ==
  LET prev == prev_month(tyumen_date(t))
  IN  IF MonthBefore(prev, <<2026, 3>>) THEN EmptyDict
      ELSE BonusLoop(us, ad,
                     top_users_by_visits_in_month(us, prev[1], prev[2],
                                                  Some(BOT_SOURCE), 3, FALSE),
                     1, 0, EmptyDict)

RECURSIVE iter_months_inclusive(_, _, _, _)
iter_months_inclusive(y, m, end_y, end_m) ==
  IF MonthBefore(<<end_y, end_m>>, <<y, m>>) THEN <<>>
  ELSE <<<<y, m>>>> \o (IF m = 12 THEN iter_months_inclusive(y + 1, 1, end_y, end_m)
                        ELSE iter_months_inclusive(y, m + 1, end_y, end_m))

\* The inner loop of medals_for_user over one month's rows: the medal of uid, if any.
RECURSIVE MedalLoop(_, _, _, _, _)
MedalLoop(staff, rows, i, place, uid) ==
  IF i > Len(rows) THEN <<>>
  ELSE IF rows[i].user_id = 0 \/ rows[i].user_id \in staff
  THEN MedalLoop(staff, rows, i + 1, place, uid)
  ELSE LET won == IF rows[i].user_id = uid /\ place + 1 \in DOMAIN MEDAL_BY_PLACE
                  THEN <<MEDAL_BY_PLACE[place + 1]>> ELSE <<>>
       IN  IF place + 1 >= 3 THEN won
           ELSE won \o MedalLoop(staff, rows, i + 1, place + 1, uid)

RECURSIVE MedalMonths(_, _, _, _, _)
MedalMonths(us, staff, months, k, uid) ==
  IF k > Len(months) THEN <<>>
  ELSE MedalLoop(staff,
                 top_users_by_visits_in_month(us, months[k][1], months[k][2],
                                              Some(BOT_SOURCE), 3, FALSE),
                 1, 0, uid)
       \o MedalMonths(us, staff, months, k + 1, uid)

\* The medals as a sequence, oldest month first (the code joins them into a string).
medals_for_user(us, ad, t, uid) ==
  LET end == prev_month(tyumen_date(t))
  IN  IF ~is_eligible_for_competitions(us, ad, uid) THEN <<>>
      ELSE IF MonthBefore(end, <<2026, 3>>) THEN <<>>
      ELSE MedalMonths(us, staff_user_ids_known(ad, us),
                       iter_months_inclusive(2026, 3, end[1], end[2]), 1, uid)

bonus_discount_for_user(us, ad, t, uid) ==
  IF ~is_eligible_for_competitions(us, ad, uid) THEN 0
  ELSE LET m == monthly_bonus_map_for_prev_month(us, ad, t)
       IN  IF uid \in DOMAIN m THEN m[uid] ELSE 0

total_discount_for_user(us, ad, t, uid, base_discount) ==
  <<base_discount + bonus_discount_for_user(us, ad, t, uid),
    bonus_discount_for_user(us, ad, t, uid)>>

----------------------------------------------------------------------------
(* Broadcast history and segments: admin_stats.py and _broadcast_targets of *)
(* bot.py.  A list of user ids is a sequence; a list read off a dict is     *)
(* taken in ascending order of its keys.  A segment kind such as            *)
(* "inactive:14" or "upgrade:b1" is the record of its parts.                *)

DEFAULT_BROADCAST_COOLDOWN_DAYS == 7
BROADCAST_IGNORE_KINDS == {"contest"}
HoursPerDay == 24

RECURSIVE Ascending(_)
Ascending(ids) ==
  IF ids = {} THEN <<>>
  ELSE LET least == CHOOSE x \in ids : \A y \in ids : x <= y
       IN  <<least>> \o Ascending(ids \ {least})

\* The members of a list.
Range(xs) == {xs[i] : i \in 1..Len(xs)}

\* [x for x in xs if x in keep]
Filter(xs, keep) ==
  LET kept == {i \in 1..Len(xs) : xs[i] \in keep}
  IN  [k \in 1..Cardinality(kept) |->
         xs[CHOOSE i \in kept : Cardinality({j \in kept : j < i}) = k - 1]]

\* The latest timestamp among events, None if there is none.
LatestTs(events) ==
  LET ts == {ev.ts : ev \in events}
  IN  IF ts = {} THEN None ELSE Some(CHOOSE x \in ts : \A y \in ts : y <= x)

\* Contest events count like any other event.
last_broadcast_ts_any_kind(rec) ==
  LatestTs(Range(rec.broadcast_events))

last_broadcast_ts(rec) ==
  LatestTs({ev \in Range(rec.broadcast_events) : ev.kind \notin BROADCAST_IGNORE_KINDS})

filter_user_ids_by_broadcast_cooldown(us, user_ids, days, t) ==
  LET cutoff == t - days * HoursPerDay
      Keep(uid) ==
        \/ uid \notin DOMAIN us
        \/ last_broadcast_ts(us[uid]) = None
        \/ Get(last_broadcast_ts(us[uid])) < cutoff
  IN  Filter(user_ids, {uid \in Range(user_ids) : Keep(uid)})

record_broadcast_sent(us, user_id, kind, source, t) ==
  LET ev == [ts |-> t, kind |-> kind, src |-> norm_source(source)]
  IN  IF user_id \notin DOMAIN us
      THEN Put(us, user_id, [NewUserRec(None, 0, <<>>) EXCEPT !.broadcast_events = <<ev>>])
      ELSE Put(us, user_id, [us[user_id] EXCEPT !.broadcast_events = Append(@, ev)])

\* record_broadcast_sent for every id of the list, in order.
RECURSIVE record_all(_, _, _, _, _)
record_all(us, ids, kind, source, t) ==
  IF ids = <<>> THEN us
  ELSE record_all(record_broadcast_sent(us, Head(ids), kind, source, t), Tail(ids), kind, source, t)

last_visit_ts(rec, source) ==
  LatestTs({ev \in Range(rec.visit_events) : SrcMatches(ev, source)})

\* Users without any visit are in the list as well.
users_no_visit_newer_than_days(us, days, source, t) ==
  Ascending({uid \in DOMAIN us :
               /\ us[uid].unsubscribed_at = None
               /\ \/ last_visit_ts(us[uid], source) = None
                  \/ Get(last_visit_ts(us[uid], source)) < t - days * HoursPerDay})

users_last_visit_older_than_days(us, days, source, t) ==
  Ascending({uid \in DOMAIN us :
               /\ us[uid].unsubscribed_at = None
               /\ last_visit_ts(us[uid], source) # None
               /\ Get(last_visit_ts(us[uid], source)) < t - days * HoursPerDay})

\* users_no_visits_between_days with the band closed at both ends.
users_no_visits_between_days_closed(us, min_days, max_days, source, t) ==
  LET lo == IF min_days < 0 THEN 0 ELSE min_days
      hi == IF max_days <= lo THEN lo + 1 ELSE max_days
  IN  Ascending({uid \in DOMAIN us :
                   /\ us[uid].unsubscribed_at = None
                   /\ last_visit_ts(us[uid], source) # None
                   /\ t - hi * HoursPerDay <= Get(last_visit_ts(us[uid], source))
                   /\ Get(last_visit_ts(us[uid], source)) <= t - lo * HoursPerDay})

\* Active users whose latest visit lies in [t - max_days, t - min_days).
users_no_visits_between_days(us, min_days, max_days, source, t) ==
  LET lo == IF min_days < 0 THEN 0 ELSE min_days
      hi == IF max_days <= lo THEN lo + 1 ELSE max_days
  IN  Ascending({uid \in DOMAIN us :
                   /\ us[uid].unsubscribed_at = None
                   /\ last_visit_ts(us[uid], source) # None
                   /\ t - hi * HoursPerDay <= Get(last_visit_ts(us[uid], source))
                   /\ Get(last_visit_ts(us[uid], source)) < t - lo * HoursPerDay})

list_cards(c) == {to_card(num, c.by_number[num]) : num \in DOMAIN c.by_number}

\* The segment kinds the keyboards and handlers of bot.py build.
Kind(segment, n, upgrade) == <<segment, n, upgrade>>
KindSeg(kind) == kind[1]
KindDays(kind) == kind[2]
KindCode(kind) == kind[3]
\* "inactive_range:min:max"
RangeKind(min_days, max_days) == <<"inactive_range", min_days, "", max_days>>
KindMaxDays(kind) == kind[4]

want_visits(code) ==
  CASE code = "b1" -> Some(4)
    [] code = "s2" -> Some(13)
    [] code = "s1" -> Some(14)
    [] code = "g2" -> Some(33)
    [] code = "g1" -> Some(34)
    [] OTHER -> None

\* The contest segment passes the cooldown filter like the others.
broadcast_targets_contest_cooled(us, ad, c, kind, t) ==
  filter_user_ids_by_broadcast_cooldown(
    us, Ascending(active_user_ids(us) \ staff_user_ids_known(ad, us)), 7, t)

\* The stores after _broadcast_targets(kind) recorded a broadcast for every user
\* of the "all" segment.
broadcast_targets_stores_recording(us, ad, c, kind, t) ==
  [users  |-> record_all(us, Ascending(active_user_ids(us) \ staff_user_ids_known(ad, us)),
                         KindSeg(kind), Some(BOT_SOURCE), t),
   admins |-> ad,
   cards  |-> c]

\* The stores after _broadcast_targets(kind): _staff_user_ids_known,
\* active_user_ids, users_last_visit_older_than_days,
\* users_no_visits_between_days, filter_user_ids_by_broadcast_cooldown and
\* list_cards read their store through _load, which writes nothing, and none of
\* them calls _save.
broadcast_targets_stores(us, ad, c, kind, t) ==
  [users |-> us, admins |-> ad, cards |-> c]

\* The targets of _broadcast_targets(kind); the label is left out.  The old
\* audience codes novis14 and novis30 stand for inactive:14 and inactive:30, any
\* other kind for "all".
broadcast_targets(us, ad, c, kind, t) ==
  LET staff  == staff_user_ids_known(ad, us)
      active == active_user_ids(us)
      Guest(uid) == uid \in active /\ uid \notin staff
      days == CASE KindSeg(kind) = "novis14" -> 14
                [] KindSeg(kind) = "novis30" -> 30
                [] OTHER -> KindDays(kind)
      away == users_last_visit_older_than_days(us, days, Some(BOT_SOURCE), t)
      band == users_no_visits_between_days(us, KindDays(kind), KindMaxDays(kind),
                                           Some(BOT_SOURCE), t)
  IN  IF KindSeg(kind) = "contest" THEN Ascending(active \ staff)
      ELSE IF KindSeg(kind) \in {"inactive", "novis14", "novis30"}
      THEN filter_user_ids_by_broadcast_cooldown(
             us, Filter(away, {uid \in Range(away) : Guest(uid)}),
             7, t)
      ELSE IF KindSeg(kind) = "inactive_range"
      THEN filter_user_ids_by_broadcast_cooldown(
             us, Filter(band, {uid \in Range(band) : Guest(uid)}),
             7, t)
      ELSE IF KindSeg(kind) = "upgrade"
      THEN filter_user_ids_by_broadcast_cooldown(
             us,
             Ascending({card.user_id : card \in
                          {x \in list_cards(c) :
                             /\ want_visits(KindCode(kind)) # None
                             /\ Guest(x.user_id)
                             /\ ~x.staff_gold
                             /\ x.visits = Get(want_visits(KindCode(kind)))}}),
             7, t)
      ELSE filter_user_ids_by_broadcast_cooldown(us, Ascending(active \ staff), 7, t)

----------------------------------------------------------------------------
(* bot.py: the broadcast flow of the superadmin's chat.  A chat's entry in  *)
(* _pending_broadcast holds the kind, the targets, the stage (None until    *)
(* handle_admin_broadcast_make) and whether the post to copy is stored.     *)

add_admin_by_username(ad, username) ==
  IF normalize_username(username) \in DOMAIN ad THEN ad
  ELSE Put(ad, normalize_username(username), [user_id |-> None])

remove_admin_by_username(ad, username) ==
  IF normalize_username(username) \in DOMAIN ad
  THEN Pop(ad, normalize_username(username))
  ELSE ad

\* The user whose stored username is the given one (the first of the store, the
\* smallest id here), None if there is none.
find_user_id_by_username(us, username) ==
  LET found == {uid \in DOMAIN us :
                  /\ us[uid].username # None
                  /\ normalize_username(Get(us[uid].username)) = username}
  IN  IF username = "" \/ found = {} THEN None
      ELSE Some(CHOOSE x \in found : \A y \in found : x <= y)

\* 5 <= len(username) <= 32 and only letters, digits and _: on the texts the model
\* sends ("x" is too short).
valid_username(username) == username \in {"alice", "bobby", "owner"}

\* The user id handle_admin_demote resolves from the admin record alone.
demote_user_id_synced_only(ad, us, username) ==
  IF username \in DOMAIN ad THEN ad[username].user_id ELSE None

\* Lines 2879-2889 of handle_admin_demote: the user id of the admin record, or
\* else the user of that username in the event store.
demote_user_id(ad, us, username) ==
  LET synced == IF username \in DOMAIN ad THEN ad[username].user_id ELSE None
  IN  IF synced # None THEN synced ELSE find_user_id_by_username(us, username)

PendingBroadcast(kind, targets, stage, post) ==
  [kind |-> kind, targets |-> targets, stage |-> stage, post |-> post]

\* _callback_guard without the pop.
callback_pending_kept(pb, chat_id, in_broadcast_ui) == pb

\* The pop of _callback_guard: a callback from outside the broadcast screens drops
\* the chat's pending broadcast.
callback_pending(pb, chat_id, in_broadcast_ui) ==
  IF chat_id \in DOMAIN pb /\ ~in_broadcast_ui THEN Pop(pb, chat_id) ELSE pb

\* The send handler trusting the staff filter of the segment builder.
send_targets_stored_staff(us, ad, stored, kind, t) ==
  IF kind # "" /\ kind # "contest"
  THEN filter_user_ids_by_broadcast_cooldown(us, stored, 7, t)
  ELSE stored

\* The send handler trusting the cooldown filter of the segment builder.
send_targets_stored_cooldown(us, ad, stored, kind, t) ==
  LET staff == staff_user_ids_known(ad, us)
  IN  Filter(stored, Range(stored) \ staff)

\* Lines 2455-2473 of handle_admin_broadcast_send: the stored targets without the
\* staff of this moment and, unless the kind is contest, without the users a
\* broadcast reached in the last 7 days.
send_targets(us, ad, stored, kind, t) ==
  LET staff == staff_user_ids_known(ad, us)
      guests == Filter(stored, Range(stored) \ staff)
  IN  IF guests # <<>> /\ kind # "" /\ kind # "contest"
      THEN filter_user_ids_by_broadcast_cooldown(us, guests, 7, t)
      ELSE guests

----------------------------------------------------------------------------
(* The state after construction: no data files, no pending input.          *)

Init ==
  /\ cards = [by_user |-> EmptyDict, by_number |-> EmptyDict]
  /\ users = EmptyDict
  /\ admins = EmptyDict
  /\ now = 12
  /\ pending_visit_add = EmptyDict
  /\ pending_admin_add = {}
  /\ pending_broadcast = EmptyDict
  /\ workers = IdleWorkers
  /\ files = NoFiles
  /\ recent_callback_keys = {}
  /\ ret = Ran("init", 0, RetNone)

----------------------------------------------------------------------------
(* The card registry, called directly.                                     *)

NotCards == <<users, admins, now, pending_visit_add, pending_admin_add, pending_broadcast,
              workers, files, recent_callback_keys>>

\* _alloc_random_card_number is called only for a user without a card.
AllocChoices(c, u, draws) ==
  IF HasCard(c, u) THEN {NoNumber} ELSE alloc_random_card_number(c.by_number, draws)

EnsureLevelCard(u) ==
  \E alloc \in AllocChoices(cards, u, RandomDraws) :
    LET r == ensure_level_card(cards, u, alloc)
    IN  cards' = r.cards /\ ret' = Ran("ensure_level_card", u, r.ret) /\ UNCHANGED NotCards

VisitsAfter(c, u, delta) ==
  IF HasCard(c, u) THEN c.by_number[c.by_user[u]].visits + delta ELSE 0

AddVisitByUserId(u, delta) ==
  /\ VisitsAfter(cards, u, delta) <= MaxVisits
  /\ LET r == add_visit_by_user_id(cards, u, delta)
     IN  cards' = r.cards /\ ret' = Ran("add_visit_by_user_id", u, r.ret) /\ UNCHANGED NotCards

SetStaffGoldByUserId(u, staff_level, staff_discount) ==
  \E alloc \in AllocChoices(cards, u, RandomDraws) :
    LET r == set_staff_gold_by_user_id(cards, u, staff_level, staff_discount, alloc)
    IN  cards' = r.cards /\ ret' = Ran("set_staff_gold_by_user_id", u, r.ret) /\ UNCHANGED NotCards

ClearStaffGoldByUserId(u) ==
  LET r == clear_staff_gold_by_user_id(cards, u)
  IN  cards' = r.cards /\ ret' = Ran("clear_staff_gold_by_user_id", u, r.ret) /\ UNCHANGED NotCards

NextCards ==
  \E u \in CardUsers :
    \/ EnsureLevelCard(u)
    \/ \E delta \in Deltas : AddVisitByUserId(u, delta)
    \/ \E sl \in StaffLevelArgs, sd \in StaffDiscountArgs : SetStaffGoldByUserId(u, sl, sd)
    \/ ClearStaffGoldByUserId(u)

SpecCards == Init /\ [][NextCards]_vars

----------------------------------------------------------------------------
(* The pure tier functions, applied to every visit count up to the bound.  *)

TierForVisits(v) ==
  /\ ret' = Ran("tier_for_visits", 0, [visits |-> v, tier |-> tier_for_visits(v)])
  /\ UNCHANGED <<cards, users, admins, now, pending_visit_add, pending_admin_add, pending_broadcast, workers, files, recent_callback_keys>>

NextTierInfo(v) ==
  /\ ret' = Ran("next_tier_info", 0, [visits |-> v, next |-> next_tier_info(v)])
  /\ UNCHANGED <<cards, users, admins, now, pending_visit_add, pending_admin_add, pending_broadcast, workers, files, recent_callback_keys>>

NextTier ==
  \E v \in 0..MaxTierVisits : TierForVisits(v) \/ NextTierInfo(v)

SpecTier == Init /\ [][NextTier]_vars

----------------------------------------------------------------------------
(* The visit flow of bot.py: a guest registers a card, a staff member opens *)
(* the visit input and sends a card number, the second bot records visits   *)
(* of its own source in the same files, and time passes.                    *)

MaxTicks == 2
HoursPerTick == 12
\* The numbers rng.randint draws while the visit flow runs.
VisitDraws == {10}

\* The alloc draw of a handler that may have to create the sender's card.
\* handle_register_card_callback: register_card writes guest_cards.json, which is
\* not modelled; ensure_level_card runs before the guard.  A RuntimeError of the
\* allocation ends the handler there.
HandleRegisterCard(u) ==
  \E alloc \in AllocChoices(cards, u, VisitDraws) :
    LET e == ensure_level_card(cards, u, alloc)
        g == guard_sync(users, admins, e.cards, u, TgUsername(u), alloc)
    IN  IF e.ret = RetError
        THEN /\ ret' = Ran("handle_register_card_callback", u, [kind |-> "error"])
             /\ UNCHANGED <<cards, users, admins, now, pending_visit_add, pending_admin_add, pending_broadcast, workers, files, recent_callback_keys>>
        ELSE /\ cards' = g.cards
             /\ users' = g.users
             /\ admins' = g.admins
             /\ ret' = Ran("handle_register_card_callback", u, [kind |-> "registered"])
             /\ pending_broadcast' = Pop(pending_broadcast, u)
             /\ UNCHANGED <<now, pending_visit_add, pending_admin_add, workers, files, recent_callback_keys>>

\* handle_admin_add_visit: data is "admin_add_visit" or "admin_add_visit_admins".
HandleAdminAddVisit(u, data) ==
  \E alloc \in AllocChoices(cards, u, VisitDraws) :
    LET g == guard_sync(users, admins, cards, u, TgUsername(u), alloc)
        back_cb == IF data = "admin_add_visit" THEN "admin_menu" ELSE "admin_admins"
    IN  /\ cards' = g.cards
        /\ users' = g.users
        /\ admins' = g.admins
        /\ UNCHANGED <<now, workers, files, recent_callback_keys>>
        /\ pending_broadcast' = Pop(pending_broadcast, u)
        /\ IF ~is_staff(g.admins, u, TgUsername(u))
           THEN /\ ret' = Ran("handle_admin_add_visit", u, [kind |-> "not_staff"])
                /\ UNCHANGED <<pending_visit_add, pending_admin_add>>
           ELSE /\ pending_visit_add' = Put(pending_visit_add, u, back_cb)
                /\ pending_admin_add' = pending_admin_add \ {u}
                /\ ret' = Ran("handle_admin_add_visit", u, [kind |-> "ask_number"])

\* The texts a staff member sends: the number of a card, a number of no card, no number.
Texts(c) == (DOMAIN c.by_number) \cup {<<"1", "0">>, <<"x">>}

\* handle_admin_visit_input: runs for a chat that waits for a card number; text is
\* the stripped message text.
HandleAdminVisitInput(u, text) ==
  /\ u \in DOMAIN pending_visit_add
  /\ \E alloc \in AllocChoices(cards, u, VisitDraws) :
       LET g    == guard_sync(users, admins, cards, u, TgUsername(u), alloc)
           card == find_card_by_number(g.cards, text)
           v    == confirm_visit(g.users, g.cards, card.card.user_id, u, BOT_SOURCE, now)
           Answer(kind, target) ==
             ret' = Ran("handle_admin_visit_input", u,
                        [kind |-> kind, target |-> target, text |-> text])
       IN  /\ UNCHANGED <<now, pending_admin_add, pending_broadcast, workers, files, recent_callback_keys>>
           /\ admins' = g.admins
           /\ IF ~is_staff(g.admins, u, TgUsername(u))
              THEN /\ pending_visit_add' = Pop(pending_visit_add, u)
                   /\ cards' = g.cards /\ users' = g.users
                   /\ Answer("not_staff", None)
              ELSE IF ~isdigit(text)
              THEN /\ UNCHANGED pending_visit_add
                   /\ cards' = g.cards /\ users' = g.users
                   /\ Answer("need_number", None)
              ELSE IF card = RetNone
              THEN /\ UNCHANGED pending_visit_add
                   /\ cards' = g.cards /\ users' = g.users
                   /\ Answer("not_found", None)
              ELSE IF is_self_award(u, card.card.user_id)
              THEN /\ pending_visit_add' = Pop(pending_visit_add, u)
                   /\ cards' = g.cards /\ users' = g.users
                   /\ Answer("self", Some(card.card.user_id))
              ELSE /\ pending_visit_add' = Pop(pending_visit_add, u)
                   /\ cards' = v.cards /\ users' = v.users
                   /\ Answer(v.reply, Some(card.card.user_id))

\* The second bot runs the same code with its own BOT_SOURCE on the same files:
\* its staff member confirms a visit for the card of target.
OtherBotVisit(admin_id, target) ==
  /\ HasCard(cards, target)
  /\ admin_id # target
  /\ LET v == confirm_visit(users, cards, target, admin_id, OTHER_BOT_SOURCE, now)
     IN  /\ cards' = v.cards
         /\ users' = v.users
         /\ ret' = Ran("other_bot_visit", admin_id, [kind |-> v.reply, target |-> Some(target)])
  /\ UNCHANGED <<admins, now, pending_visit_add, pending_admin_add, pending_broadcast, workers, files, recent_callback_keys>>

\* Time passes.
Tick ==
  /\ now + HoursPerTick <= 12 + MaxTicks * HoursPerTick
  /\ now' = now + HoursPerTick
  /\ ret' = Ran("tick", 0, RetNone)
  /\ UNCHANGED <<cards, users, admins, pending_visit_add, pending_admin_add, pending_broadcast, workers, files, recent_callback_keys>>

NextVisit ==
  \/ \E u \in Users : HandleRegisterCard(u)
  \/ \E u \in Users, data \in {"admin_add_visit", "admin_add_visit_admins"} :
       HandleAdminAddVisit(u, data)
  \/ \E u \in Users : \E text \in Texts(cards) : HandleAdminVisitInput(u, text)
  \/ \E target \in Users \ superadmin_ids : OtherBotVisit(864921585, target)
  \/ Tick

SpecVisit == Init /\ [][NextVisit]_vars

----------------------------------------------------------------------------
(* The visit flow together with the lookups of level_cards.py, called with  *)
(* known and unknown keys.                                                  *)

\* Guest 102 never registers a card in these runs.
LookupUsers == Users \cup {102}

FindCardByNumber(text) ==
  /\ ret' = Ran("find_card_by_number", 0, [key |-> text, out |-> find_card_by_number(cards, text)])
  /\ UNCHANGED <<cards, users, admins, now, pending_visit_add, pending_admin_add, pending_broadcast, workers, files, recent_callback_keys>>

FindCardByUserId(u) ==
  /\ ret' = Ran("find_card_by_user_id", u, [out |-> find_card_by_user_id(cards, u)])
  /\ UNCHANGED <<cards, users, admins, now, pending_visit_add, pending_admin_add, pending_broadcast, workers, files, recent_callback_keys>>

\* add_visit_by_user_id for a user without a card.
AddVisitNoCard(u, delta) ==
  /\ ~HasCard(cards, u)
  /\ \E r \in {add_visit_by_user_id(cards, u, delta)} :
       /\ cards' = r.cards
       /\ ret' = Ran("add_visit_by_user_id", u, [out |-> r.ret])
  /\ UNCHANGED NotCards

NextLookup ==
  \/ NextVisit
  \/ \E text \in Texts(cards) : FindCardByNumber(text)
  \/ \E u \in LookupUsers : FindCardByUserId(u)
  \/ \E u \in LookupUsers, delta \in Deltas : AddVisitNoCard(u, delta)

SpecLookup == Init /\ [][NextLookup]_vars

----------------------------------------------------------------------------
(* The monthly competition: the event and role stores as earlier visits and *)
(* role changes left them, and the questions bot.py asks about them.  The   *)
(* functions asked read only these two stores and the clock.                *)

MaxEarlierVisits == 1
MaxPrevVisits == 2
BonusUsers == {864921585, 101, 102, 103}
\* The accounts that came already the month before the previous one.
EarlierVisitors == {101, 102}
\* Noon of the first day of March 2026, of May 2026 and of January 2027.
BonusNows == {month_start(2026, 3) + 12, month_start(2026, 5) + 12, month_start(2027, 1) + 12}
\* No admin; @bobby added and not yet seen; @bobby added and synced with account 102.
BonusAdmins ==
  {EmptyDict,
   [k \in {"bobby"} |-> [user_id |-> None]],
   [k \in {"bobby"} |-> [user_id |-> Some(102)]]}

\* n visits on the first n business days of a month, as add_visit_marked records
\* them; account 103's events are of the time before events carried a source.
MonthEvents(u, ym, n) ==
  [k \in 1..n |-> [ts |-> month_start(ym[1], ym[2]) + (k - 1) * 24 + 12,
                   by |-> IF u = 864921585 THEN 101 ELSE 864921585,
                   src |-> IF u = 103 THEN None ELSE Some(BOT_SOURCE)]]

\* The store at instant t after earlier[u] visits of user u in the month before the
\* previous month and prev[u] visits in the previous month.
StoreOf(t, earlier, prev) ==
  LET pm == prev_month(tyumen_date(t))
      em == prev_month([year |-> pm[1], month |-> pm[2]])
  IN  [u \in BonusUsers |->
         NewUserRec(TgUsername(u), earlier[u] + prev[u],
                    MonthEvents(u, em, earlier[u]) \o MonthEvents(u, pm, prev[u]))]

InitBonus ==
  /\ cards = [by_user |-> EmptyDict, by_number |-> EmptyDict]
  /\ now \in BonusNows
  /\ \E e \in [EarlierVisitors -> 0..MaxEarlierVisits], prev \in [BonusUsers -> 0..MaxPrevVisits] :
       users = StoreOf(now, [u \in BonusUsers |-> IF u \in EarlierVisitors THEN e[u] ELSE 0], prev)
  /\ admins \in BonusAdmins
  /\ pending_visit_add = EmptyDict
  /\ pending_admin_add = {}
  /\ pending_broadcast = EmptyDict
  /\ workers = IdleWorkers
  /\ files = NoFiles
  /\ recent_callback_keys = {}
  /\ ret = Ran("init", 0, RetNone)

AllStores == <<cards, users, admins, now, pending_visit_add, pending_admin_add, pending_broadcast,
               workers, files, recent_callback_keys>>

BonusDiscountForUser(u) ==
  /\ ret' = Ran("bonus_discount_for_user", u, bonus_discount_for_user(users, admins, now, u))
  /\ UNCHANGED AllStores

MedalsForUser(u) ==
  /\ ret' = Ran("medals_for_user", u, medals_for_user(users, admins, now, u))
  /\ UNCHANGED AllStores

MonthlyBonusMapForPrevMonth ==
  /\ ret' = Ran("monthly_bonus_map_for_prev_month", 0,
                monthly_bonus_map_for_prev_month(users, admins, now))
  /\ UNCHANGED AllStores

NextBonus ==
  \/ \E u \in BonusUsers : BonusDiscountForUser(u)
  \/ \E u \in BonusUsers : MedalsForUser(u)
  \/ MonthlyBonusMapForPrevMonth

SpecBonus == InitBonus /\ [][NextBonus]_vars

----------------------------------------------------------------------------
(* The leaderboard function itself, asked for the two months that hold      *)
(* events, next to the bonus map that is built on it.                       *)

RankLimits == {0, 1, 3}

\* The month before the previous month of instant t.
earlier_month(t) ==
  prev_month([year  |-> prev_month(tyumen_date(t))[1],
              month |-> prev_month(tyumen_date(t))[2]])

TopUsersByVisitsInMonth(ym, limit) ==
  /\ ret' = Ran("top_users_by_visits_in_month", 0,
                [year |-> ym[1], month |-> ym[2], limit |-> limit,
                 rows |-> top_users_by_visits_in_month(users, ym[1], ym[2],
                                                       Some(BOT_SOURCE), limit, FALSE)])
  /\ UNCHANGED AllStores

NextRank ==
  \/ \E ym \in {prev_month(tyumen_date(now)), earlier_month(now)}, limit \in RankLimits :
       TopUsersByVisitsInMonth(ym, limit)
  \/ MonthlyBonusMapForPrevMonth

SpecRank == InitBonus /\ [][NextRank]_vars

----------------------------------------------------------------------------
(* The leaderboard over a file with events at the edges of a month, of both *)
(* sources and of the time before sources, and with corrupt entries.  Here  *)
(* users is data["users"].items().                                          *)

\* The month asked about and the one after it.
AskedMonths == {<<2026, 3>>, <<2026, 4>>}
MonthSources == {BOT_SOURCE, OTHER_BOT_SOURCE}
MonthLimits == {1, 3}

\* Events of account 101, by the hour of Tyumen time they happened at, written
\* by a server on Tyumen time, by a server on UTC, and without offset.
EdgeEvents ==
  LET start == month_start(2026, 3)
      end   == month_start(2026, 4)
  IN  {DictEvent(IsoTs(start - 1, Some(TyumenOffset)), Some(BOT_SOURCE)),
       DictEvent(IsoTs(start - TyumenOffset, Some(0)), Some(BOT_SOURCE)),
       DictEvent(IsoTs(end - 1, None), None),
       DictEvent(IsoTs(end - TyumenOffset, Some(0)), Some(BOT_SOURCE)),
       DictEvent(IsoTs(start + 36, Some(TyumenOffset)), Some(OTHER_BOT_SOURCE)),
       StrEvent(IsoTs(start + 60, None))}

\* Entries that cannot be counted: a timestamp that is no date-time, in a record
\* and bare, a record without "ts", an empty entry.
CorruptEvents ==
  {DictEvent(BadTs, Some(BOT_SOURCE)), StrEvent(BadTs), DictEvent(NoTs, Some(BOT_SOURCE)), NoEvent}

\* The event lists of account 101: up to two entries.
EventLists ==
  {<<>>} \cup {<<e>> : e \in EdgeEvents \cup CorruptEvents}
         \cup {<<e, f>> : e \in EdgeEvents \cup CorruptEvents, f \in EdgeEvents}

\* Account 102 has one visit in the middle of March.
MidMonthRec ==
  DictRec(None, <<DictEvent(IsoTs(month_start(2026, 3) + 300, Some(TyumenOffset)), Some(BOT_SOURCE))>>)

\* Items that cannot be counted: a key that is no number, a value that is no record.
CorruptItems ==
  {[uid |-> <<"a", "b", "c">>, rec |-> MidMonthRec], [uid |-> <<"1", "0", "3">>, rec |-> ListRec]}

InitMonth ==
  /\ cards = [by_user |-> EmptyDict, by_number |-> EmptyDict]
  /\ \E events \in EventLists, corrupt \in {<<>>} \cup {<<c>> : c \in CorruptItems} :
       users = <<[uid |-> <<"1", "0", "1">>, rec |-> DictRec(None, events)]>>
               \o corrupt
               \o <<[uid |-> <<"1", "0", "2">>, rec |-> MidMonthRec]>>
  /\ admins = EmptyDict
  /\ now = month_start(2026, 5) + 12
  /\ pending_visit_add = EmptyDict
  /\ pending_admin_add = {}
  /\ pending_broadcast = EmptyDict
  /\ workers = IdleWorkers
  /\ files = NoFiles
  /\ recent_callback_keys = {}
  /\ ret = Ran("init", 0, RetNone)

TopUsersRaw(ym, source, limit) ==
  /\ ret' = Ran("top_users_by_visits_in_month", 0,
                [year |-> ym[1], month |-> ym[2], source |-> source, limit |-> limit,
                 rows |-> top_users_by_visits_in_month_raw(users, ym[1], ym[2],
                                                           Some(source), limit, FALSE)])
  /\ UNCHANGED AllStores

NextMonth ==
  \E ym \in AskedMonths, source \in MonthSources, limit \in MonthLimits :
    TopUsersRaw(ym, source, limit)

SpecMonth == InitMonth /\ [][NextMonth]_vars

----------------------------------------------------------------------------
(* The total discount shown on a card and in the visit answers.             *)

BaseDiscounts == {3, 10}

TotalDiscountForUser(u, base_discount) ==
  /\ ret' = Ran("total_discount_for_user", u,
                [base  |-> base_discount,
                 total |-> total_discount_for_user(users, admins, now, u, base_discount)[1],
                 bonus |-> total_discount_for_user(users, admins, now, u, base_discount)[2]])
  /\ UNCHANGED AllStores

NextDiscount ==
  \E u \in BonusUsers, base_discount \in BaseDiscounts : TotalDiscountForUser(u, base_discount)

SpecDiscount == InitBonus /\ [][NextDiscount]_vars

----------------------------------------------------------------------------
(* The cooldown filter, applied to lists of user ids over stores with       *)
(* drawn broadcast histories.                                               *)

\* Noon of 10 February 2026.
SegmentNow == 40 * HoursPerDay + 12
SegmentInstants == {SegmentNow}

\* A broadcast event recorded the given number of hours before SegmentNow.
SentAgo(kind, hours) == [ts |-> SegmentNow - hours, kind |-> kind, src |-> Some(BOT_SOURCE)]

\* Nothing; a broadcast just under, exactly and just over 7 days ago; a contest
\* broadcast yesterday, alone and after an older broadcast; two broadcasts.
BroadcastHistories ==
  {<<>>,
   <<SentAgo("all", 167)>>, <<SentAgo("all", 168)>>, <<SentAgo("all", 169)>>,
   <<SentAgo("contest", 24)>>,
   <<SentAgo("inactive:14", 200), SentAgo("contest", 24)>>,
   <<SentAgo("all", 200), SentAgo("upgrade:b1", 24)>>}

CooldownUsers == {101, 102}
\* The ids handed to the filter; 103 has no record in these stores.
CooldownIds == {101, 102, 103}
IdLists ==
  {ids \in UNION {[1..n -> CooldownIds] : n \in 0..Cardinality(CooldownIds)} :
     \A i, j \in 1..Len(ids) : i # j => ids[i] # ids[j]}

InitCooldown ==
  /\ cards = [by_user |-> EmptyDict, by_number |-> EmptyDict]
  /\ now \in SegmentInstants
  /\ \E h \in [CooldownUsers -> BroadcastHistories] :
       users = [u \in CooldownUsers |->
                  [NewUserRec(TgUsername(u), 0, <<>>) EXCEPT !.broadcast_events = h[u]]]
  /\ admins = EmptyDict
  /\ pending_visit_add = EmptyDict
  /\ pending_admin_add = {}
  /\ pending_broadcast = EmptyDict
  /\ workers = IdleWorkers
  /\ files = NoFiles
  /\ recent_callback_keys = {}
  /\ ret = Ran("init", 0, RetNone)

FilterUserIdsByBroadcastCooldown(ids) ==
  /\ ret' = Ran("filter_user_ids_by_broadcast_cooldown", 0,
                [ids |-> ids, out |-> filter_user_ids_by_broadcast_cooldown(users, ids, DEFAULT_BROADCAST_COOLDOWN_DAYS, now)])
  /\ UNCHANGED AllStores

NextCooldown == \E ids \in IdLists : FilterUserIdsByBroadcastCooldown(ids)

SpecCooldown == InitCooldown /\ [][NextCooldown]_vars

----------------------------------------------------------------------------
(* The "long time no visit" segments over stores with drawn visit           *)
(* histories.                                                               *)

\* A visit the superadmin confirmed the given number of hours before SegmentNow.
VisitAgo(source, hours) == [ts |-> SegmentNow - hours, by |-> 864921585, src |-> source]

\* No visit; a visit of this bot just under, exactly and just over 14 days ago (the
\* last one recorded before events carried a source); an old visit of this bot
\* followed by a recent one, of this bot or of the other bot; a visit of the other
\* bot only.
VisitHistories ==
  {<<>>,
   <<VisitAgo(Some(BOT_SOURCE), 335)>>, <<VisitAgo(Some(BOT_SOURCE), 336)>>,
   <<VisitAgo(None, 337)>>,
   <<VisitAgo(Some(BOT_SOURCE), 800), VisitAgo(Some(BOT_SOURCE), 24)>>,
   <<VisitAgo(Some(BOT_SOURCE), 800), VisitAgo(Some(OTHER_BOT_SOURCE), 24)>>,
   <<VisitAgo(Some(OTHER_BOT_SOURCE), 800)>>}

SegmentGuests == {101, 102}
SegmentUsers == superadmin_ids \cup SegmentGuests
RecentBroadcasts == {<<>>, <<SentAgo("all", 24)>>}
Unsubscribed == {None, Some(SegmentNow - 48)}
\* No admin, or Bobby added by username and not seen since.
SegmentAdmins == {EmptyDict, [k \in {"bobby"} |-> [user_id |-> None]]}
InactiveDays == {14, 30}

\* The superadmin's own record: active, one old visit, no broadcast.
OwnerRec == NewUserRec(TgUsername(864921585), 1, <<VisitAgo(Some(BOT_SOURCE), 800)>>)

InitInactive ==
  /\ cards = [by_user |-> EmptyDict, by_number |-> EmptyDict]
  /\ now \in SegmentInstants
  /\ \E v \in [SegmentGuests -> VisitHistories],
        b \in [SegmentGuests -> RecentBroadcasts],
        un \in [SegmentGuests -> Unsubscribed] :
       users = [u \in SegmentUsers |->
                  IF u \in superadmin_ids THEN OwnerRec
                  ELSE [NewUserRec(TgUsername(u), Len(v[u]), v[u]) EXCEPT
                          !.broadcast_events = b[u], !.unsubscribed_at = un[u]]]
  /\ admins \in SegmentAdmins
  /\ pending_visit_add = EmptyDict
  /\ pending_admin_add = {}
  /\ pending_broadcast = EmptyDict
  /\ workers = IdleWorkers
  /\ files = NoFiles
  /\ recent_callback_keys = {}
  /\ ret = Ran("init", 0, RetNone)

BroadcastTargets(kind) ==
  /\ \E after \in {broadcast_targets_stores(users, admins, cards, kind, now)} :
       /\ users' = after.users
       /\ admins' = after.admins
       /\ cards' = after.cards
  /\ ret' = Ran("broadcast_targets", 0,
                [kind |-> kind, targets |-> broadcast_targets(users, admins, cards, kind, now)])
  /\ UNCHANGED <<now, pending_visit_add, pending_admin_add, pending_broadcast, workers, files, recent_callback_keys>>

NextInactive == \E n \in InactiveDays : BroadcastTargets(Kind("inactive", n, ""))

SpecInactive == InitInactive /\ [][NextInactive]_vars

----------------------------------------------------------------------------
(* The upgrade segments over registries with drawn visit counters.          *)

\* The segment codes admin_broadcast_upgrade_keyboard offers.
UpgradeCodes == {"b1", "s2", "s1", "g2", "g1"}

\* Visit counters around the BRONZE, SILVER and GOLD thresholds.
UpgradeVisits == {3, 4, 5, 13, 14, 33, 34}
NoCard == [visits |-> 0, staff_gold |-> FALSE, card |-> FALSE]
\* No card, a guest card with a drawn counter, or a card still marked as staff
\* card from the time its owner was an admin.
CardProfiles ==
  {NoCard} \cup {[visits |-> v, staff_gold |-> FALSE, card |-> TRUE] : v \in UpgradeVisits}
           \cup {[visits |-> 4, staff_gold |-> TRUE, card |-> TRUE]}

\* Registry c after user u got a card of the profile: created, visits added, and
\* marked as staff card where the profile says so.
WithCard(c, u, profile) ==
  IF ~profile.card THEN c
  ELSE LET made    == ensure_level_card(c, u, Fmt04(10 * (u % 1000))).cards
           visited == add_visit_by_user_id(made, u, profile.visits).cards
       IN  IF profile.staff_gold
           THEN set_staff_gold_by_user_id(visited, u, None, None, NoNumber).cards
           ELSE visited

\* The superadmin holds a staff card with 4 visits.
OwnerCard == [visits |-> 4, staff_gold |-> TRUE, card |-> TRUE]

InitUpgrade ==
  /\ \E p \in [SegmentGuests -> CardProfiles] :
       cards = WithCard(WithCard(WithCard([by_user |-> EmptyDict, by_number |-> EmptyDict],
                                          864921585, OwnerCard),
                                 101, p[101]),
                        102, p[102])
  /\ now \in SegmentInstants
  /\ \E b \in [SegmentGuests -> RecentBroadcasts], un \in [SegmentGuests -> Unsubscribed] :
       users = [u \in SegmentUsers |->
                  IF u \in superadmin_ids THEN OwnerRec
                  ELSE [NewUserRec(TgUsername(u), 0, <<>>) EXCEPT
                          !.broadcast_events = b[u], !.unsubscribed_at = un[u]]]
  /\ admins \in SegmentAdmins
  /\ pending_visit_add = EmptyDict
  /\ pending_admin_add = {}
  /\ pending_broadcast = EmptyDict
  /\ workers = IdleWorkers
  /\ files = NoFiles
  /\ recent_callback_keys = {}
  /\ ret = Ran("init", 0, RetNone)

\* The targets of every upgrade segment, as _broadcast_targets builds them.
UpgradeSegments ==
  /\ ret' = Ran("upgrade_segments", 0,
                [code \in UpgradeCodes |->
                   broadcast_targets(users, admins, cards, Kind("upgrade", 0, code), now)])
  /\ UNCHANGED AllStores

NextUpgrade == UpgradeSegments

SpecUpgrade == InitUpgrade /\ [][NextUpgrade]_vars

----------------------------------------------------------------------------
(* Every segment kind over the stores of the two specifications above.      *)

\* The kinds the keyboards offer, the old audience codes, an upgrade code and a
\* kind _broadcast_targets does not know.
SegmentKinds ==
  {Kind("all", 0, ""), Kind("contest", 0, ""),
   Kind("inactive", 14, ""), Kind("inactive", 30, ""),
   RangeKind(7, 14), RangeKind(14, 30),
   Kind("upgrade", 0, "b1"), Kind("upgrade", 0, "g1"), Kind("upgrade", 0, "zz"),
   Kind("novis14", 0, ""), Kind("novis30", 0, ""), Kind("promo", 0, "")}

InitSegments == InitInactive \/ InitUpgrade

NextSegments == \E kind \in SegmentKinds : BroadcastTargets(kind)

SpecSegments == InitSegments /\ [][NextSegments]_vars

----------------------------------------------------------------------------
(* The staff set while admins are added and removed by username, accounts   *)
(* become known to the event store and ids are synced into the role store.  *)

StaffAccounts == {101, 102}
StaffNames == {"@alice", "@bobby"}
\* The profile username of the account, or none.
StaffUsernames(u) == {TgUsername(u), None}

\* Account 102 may have blocked the bot before: known, unsubscribed.
InitStaff ==
  /\ cards = [by_user |-> EmptyDict, by_number |-> EmptyDict]
  /\ users \in {EmptyDict,
                [u \in {102} |-> [NewUserRec(TgUsername(102), 0, <<>>) EXCEPT
                                     !.unsubscribed_at = Some(0)]]}
  /\ admins = EmptyDict
  /\ now = 12
  /\ pending_visit_add = EmptyDict
  /\ pending_admin_add = {}
  /\ pending_broadcast = EmptyDict
  /\ workers = IdleWorkers
  /\ files = NoFiles
  /\ recent_callback_keys = {}
  /\ ret = Ran("init", 0, RetNone)

StaffUserIdsKnown ==
  /\ ret' = Ran("staff_user_ids_known", 0, staff_user_ids_known(admins, users))
  /\ UNCHANGED AllStores

AddAdminByUsername(name) ==
  /\ admins' = add_admin_by_username(admins, name)
  /\ ret' = Ran("add_admin_by_username", 0, RetNone)
  /\ UNCHANGED <<cards, users, now, pending_visit_add, pending_admin_add, pending_broadcast,
                 workers, files, recent_callback_keys>>

RemoveAdminByUsername(name) ==
  /\ admins' = remove_admin_by_username(admins, name)
  /\ ret' = Ran("remove_admin_by_username", 0, RetNone)
  /\ UNCHANGED <<cards, users, now, pending_visit_add, pending_admin_add, pending_broadcast,
                 workers, files, recent_callback_keys>>

SyncFromUser(u, username) ==
  /\ admins' = sync_from_user(admins, u, username)
  /\ ret' = Ran("sync_from_user", u, RetNone)
  /\ UNCHANGED <<cards, users, now, pending_visit_add, pending_admin_add, pending_broadcast,
                 workers, files, recent_callback_keys>>

TouchUserNamed(u, username) ==
  /\ users' = touch_user(users, u, username)
  /\ ret' = Ran("touch_user", u, RetNone)
  /\ UNCHANGED <<cards, admins, now, pending_visit_add, pending_admin_add, pending_broadcast,
                 workers, files, recent_callback_keys>>

NextStaff ==
  \/ StaffUserIdsKnown
  \/ \E name \in StaffNames : AddAdminByUsername(name)
  \/ \E name \in StaffNames : RemoveAdminByUsername(name)
  \/ \E u \in StaffAccounts : \E username \in StaffUsernames(u) : SyncFromUser(u, username)
  \/ \E u \in StaffAccounts : \E username \in StaffUsernames(u) : TouchUserNamed(u, username)

SpecStaff == InitStaff /\ [][NextStaff]_vars

----------------------------------------------------------------------------
(* The "7-14 days" and "14-30 days" segments over stores whose visits lie   *)
(* at the edges of the two bands.                                           *)

\* No visit; a visit of this bot just under and exactly 7 days ago; just under,
\* exactly (recorded before events carried a source) and just over 14 days ago;
\* exactly and just over 30 days ago; a visit of this bot ten days ago followed
\* by one of the other bot yesterday; a visit of the other bot only.
BandHistories ==
  {<<>>,
   <<VisitAgo(Some(BOT_SOURCE), 167)>>, <<VisitAgo(Some(BOT_SOURCE), 168)>>,
   <<VisitAgo(Some(BOT_SOURCE), 335)>>, <<VisitAgo(None, 336)>>,
   <<VisitAgo(Some(BOT_SOURCE), 337)>>,
   <<VisitAgo(Some(BOT_SOURCE), 720)>>, <<VisitAgo(Some(BOT_SOURCE), 721)>>,
   <<VisitAgo(Some(BOT_SOURCE), 240), VisitAgo(Some(OTHER_BOT_SOURCE), 24)>>,
   <<VisitAgo(Some(OTHER_BOT_SOURCE), 240)>>}

BandKinds == {RangeKind(7, 14), RangeKind(14, 30)}

InitBands ==
  /\ cards = [by_user |-> EmptyDict, by_number |-> EmptyDict]
  /\ now = SegmentNow
  /\ \E v \in [SegmentGuests -> BandHistories],
        b \in RecentBroadcasts, un \in Unsubscribed :
       users = [u \in SegmentUsers |->
                  IF u \in superadmin_ids THEN OwnerRec
                  ELSE [NewUserRec(TgUsername(u), Len(v[u]), v[u]) EXCEPT
                          !.broadcast_events = IF u = 101 THEN b ELSE <<>>,
                          !.unsubscribed_at = IF u = 102 THEN un ELSE None]]
  /\ admins \in SegmentAdmins
  /\ pending_visit_add = EmptyDict
  /\ pending_admin_add = {}
  /\ pending_broadcast = EmptyDict
  /\ workers = IdleWorkers
  /\ files = NoFiles
  /\ recent_callback_keys = {}
  /\ ret = Ran("init", 0, RetNone)

NextBands == \E kind \in BandKinds : BroadcastTargets(kind)

SpecBands == InitBands /\ [][NextBands]_vars

----------------------------------------------------------------------------
(* The broadcast flow: the superadmin selects a segment, hands in a post    *)
(* and sends, while guests appear, an admin is added, the second bot sends  *)
(* its own broadcast and days pass.                                         *)

MaxDayTicks == 2
HoursPerDayTick == 96
MaxBroadcastEvents == 3
\* The senders of the segment callback: the superadmin and a guest.
BroadcastUsers == {864921585, 101}
RootActions == {"all", "contest", "upgrade"}
AdminTexts == {"@alice", "x"}
PostTexts == {"post", "/start"}
\* The guest the second bot reaches.
OtherBotTargets == {101}
\* The guest for whom copy_message can fail (the bot is blocked).
UnreachableGuests == {102}

\* The guard of a handler run for user u; the superadmin's staff card takes the
\* number alloc if it has to be made.
Guard(u, alloc) == guard_sync(users, admins, cards, u, TgUsername(u), alloc)

\* The stores after guest 101, guest 102 and the superadmin have each opened the
\* bot once.
InitBroadcast ==
  \E g1 \in {guard_sync(EmptyDict, EmptyDict, [by_user |-> EmptyDict, by_number |-> EmptyDict],
                        101, TgUsername(101), Fmt04(10))} :
    \E g2 \in {guard_sync(g1.users, g1.admins, g1.cards, 102, TgUsername(102), Fmt04(10))} :
      \E g3 \in {guard_sync(g2.users, g2.admins, g2.cards,
                            864921585, TgUsername(864921585), Fmt04(10))} :
        /\ cards = g3.cards
        /\ users = g3.users
        /\ admins = g3.admins
        /\ now = 12
        /\ pending_visit_add = EmptyDict
        /\ pending_admin_add = {}
        /\ pending_broadcast = EmptyDict
        /\ workers = IdleWorkers
        /\ files = NoFiles
        /\ recent_callback_keys = {}
        /\ ret = Ran("init", 0, RetNone)

\* handle_admin_broadcast_root: data is "admin_broadcast_root:<action>".
HandleAdminBroadcastRoot(u, action) ==
  \E alloc \in AllocChoices(cards, u, VisitDraws) :
    \E g \in {Guard(u, alloc)} :
    \E targets \in {broadcast_targets(g.users, g.admins, g.cards, Kind(action, 0, ""), now)} :
        /\ cards' = g.cards
        /\ users' = g.users
        /\ admins' = g.admins
        /\ UNCHANGED <<now, pending_visit_add, pending_admin_add, workers, files, recent_callback_keys>>
        /\ IF ~is_superadmin(u)
           THEN /\ ret' = Ran("handle_admin_broadcast_root", u, [kind |-> "not_superadmin"])
                /\ UNCHANGED pending_broadcast
           ELSE IF action \in {"inactive", "upgrade"}
           THEN /\ pending_broadcast' = Pop(pending_broadcast, u)
                /\ ret' = Ran("handle_admin_broadcast_root", u, [kind |-> "keyboard"])
           ELSE /\ pending_broadcast' =
                     Put(Pop(pending_broadcast, u), u, PendingBroadcast(action, targets, None, FALSE))
                /\ ret' = Ran("handle_admin_broadcast_root", u,
                              [kind |-> "selected", segment |-> action, targets |-> targets])

\* handle_admin_broadcast_make
HandleAdminBroadcastMake(u) ==
  \E alloc \in AllocChoices(cards, u, VisitDraws) :
    \E g \in {Guard(u, alloc)} :
    LET targets == IF u \in DOMAIN pending_broadcast THEN pending_broadcast[u].targets ELSE <<>>
    IN  /\ cards' = g.cards
        /\ users' = g.users
        /\ admins' = g.admins
        /\ UNCHANGED <<now, pending_visit_add, pending_admin_add, workers, files, recent_callback_keys>>
        /\ IF ~is_superadmin(u)
           THEN /\ ret' = Ran("handle_admin_broadcast_make", u, [kind |-> "not_superadmin"])
                /\ UNCHANGED pending_broadcast
           ELSE IF targets = <<>>
           THEN /\ pending_broadcast' = Pop(pending_broadcast, u)
                /\ ret' = Ran("handle_admin_broadcast_make", u, [kind |-> "no_targets"])
           ELSE /\ pending_broadcast' =
                     Put(pending_broadcast, u,
                         PendingBroadcast(pending_broadcast[u].kind, targets, Some("await_post"), FALSE))
                /\ ret' = Ran("handle_admin_broadcast_make", u, [kind |-> "await_post"])

\* handle_admin_broadcast_text: a message in a chat with a pending broadcast and no
\* other pending input.
HandleAdminBroadcastText(u, text) ==
  /\ u \in DOMAIN pending_broadcast
  /\ u \notin DOMAIN pending_visit_add
  /\ u \notin pending_admin_add
  /\ \E alloc \in AllocChoices(cards, u, VisitDraws) :
       \E g \in {Guard(u, alloc)} :
       LET state == pending_broadcast[u]
           stage == IF state.stage = None THEN "await_post" ELSE Get(state.stage)
       IN  /\ cards' = g.cards
           /\ users' = g.users
           /\ admins' = g.admins
           /\ UNCHANGED <<now, pending_visit_add, pending_admin_add, workers, files, recent_callback_keys>>
           /\ IF ~is_superadmin(u)
              THEN /\ pending_broadcast' = Pop(pending_broadcast, u)
                   /\ ret' = Ran("handle_admin_broadcast_text", u, [kind |-> "not_superadmin"])
              ELSE IF state.targets = <<>>
              THEN /\ pending_broadcast' = Pop(pending_broadcast, u)
                   /\ ret' = Ran("handle_admin_broadcast_text", u, [kind |-> "no_targets"])
              ELSE IF stage # "await_post"
              THEN /\ ret' = Ran("handle_admin_broadcast_text", u, [kind |-> "post_already_stored"])
                   /\ UNCHANGED pending_broadcast
              ELSE IF text = "/start"
              THEN /\ ret' = Ran("handle_admin_broadcast_text", u, [kind |-> "command"])
                   /\ UNCHANGED pending_broadcast
              ELSE /\ pending_broadcast' =
                        Put(pending_broadcast, u,
                            PendingBroadcast(state.kind, state.targets, Some("confirm"), TRUE))
                   /\ ret' = Ran("handle_admin_broadcast_text", u, [kind |-> "confirm"])

\* handle_admin_broadcast_send: copy_message fails for the users in `failed`, who
\* get no broadcast event.  The send is left out once a target's history is full.
HandleAdminBroadcastSend(u) ==
  \E alloc \in AllocChoices(cards, u, VisitDraws) :
    \E g \in {Guard(u, alloc)} :
    LET known == u \in DOMAIN pending_broadcast
        stored == IF known THEN pending_broadcast[u].targets ELSE <<>>
        kind == IF known THEN pending_broadcast[u].kind ELSE ""
    IN  \E targets \in {send_targets(g.users, g.admins, stored, kind, now)} :
        /\ cards' = g.cards
        /\ admins' = g.admins
        /\ UNCHANGED <<now, pending_visit_add, pending_admin_add, workers, files, recent_callback_keys>>
        /\ IF ~is_superadmin(u)
           THEN /\ users' = g.users
                /\ ret' = Ran("handle_admin_broadcast_send", u, [kind |-> "not_superadmin"])
                /\ UNCHANGED pending_broadcast
           ELSE IF stored = <<>>
           THEN /\ users' = g.users
                /\ pending_broadcast' = Pop(pending_broadcast, u)
                /\ ret' = Ran("handle_admin_broadcast_send", u, [kind |-> "session_reset"])
           ELSE IF ~pending_broadcast[u].post
           THEN /\ users' = g.users
                /\ ret' = Ran("handle_admin_broadcast_send", u, [kind |-> "post_missing"])
                /\ UNCHANGED pending_broadcast
           ELSE IF targets = <<>>
           THEN /\ users' = g.users
                /\ pending_broadcast' = Pop(pending_broadcast, u)
                /\ ret' = Ran("handle_admin_broadcast_send", u, [kind |-> "no_targets"])
           ELSE /\ \A i \in 1..Len(targets) :
                     Len(g.users[targets[i]].broadcast_events) < MaxBroadcastEvents
                /\ pending_broadcast' = Pop(pending_broadcast, u)
                /\ \E failed \in SUBSET (Range(targets) \cap UnreachableGuests) :
                     LET delivered == Filter(targets, Range(targets) \ failed)
                     IN  /\ users' = record_all(g.users, delivered,
                                                IF kind = "" THEN "broadcast" ELSE kind,
                                                Some(BOT_SOURCE), now)
                         /\ ret' = Ran("handle_admin_broadcast_send", u,
                                       [kind |-> "sent", segment |-> kind,
                                        stored |-> stored, delivered |-> delivered])

\* handle_admin_admins_add: data is "admin_admins_add".
HandleAdminAdminsAdd(u) ==
  \E alloc \in AllocChoices(cards, u, VisitDraws) :
    \E g \in {Guard(u, alloc)} :
        /\ cards' = g.cards
        /\ users' = g.users
        /\ admins' = g.admins
        /\ pending_broadcast' = callback_pending(pending_broadcast, u, FALSE)
        /\ UNCHANGED <<now, pending_visit_add, workers, files, recent_callback_keys>>
        /\ IF ~is_superadmin(u)
           THEN /\ ret' = Ran("handle_admin_admins_add", u, [kind |-> "not_superadmin"])
                /\ UNCHANGED pending_admin_add
           ELSE /\ pending_admin_add' = pending_admin_add \cup {u}
                /\ ret' = Ran("handle_admin_admins_add", u, [kind |-> "ask_username"])

\* handle_admin_add_input: a message in a chat that waits for a username.
HandleAdminAddInput(u, text) ==
  /\ u \in pending_admin_add
  /\ \E alloc \in AllocChoices(cards, u, VisitDraws) :
       \E g \in {Guard(u, alloc)} :
       LET username == normalize_username(text)
           ad1 == add_admin_by_username(g.admins, username)
           uid == find_user_id_by_username(g.users, username)
       IN  /\ users' = g.users
           /\ UNCHANGED <<now, pending_visit_add, pending_broadcast, workers, files, recent_callback_keys>>
           /\ IF ~is_superadmin(u)
              THEN /\ cards' = g.cards
                   /\ admins' = g.admins
                   /\ pending_admin_add' = pending_admin_add \ {u}
                   /\ ret' = Ran("handle_admin_add_input", u, [kind |-> "not_superadmin"])
              ELSE IF ~valid_username(username)
              THEN /\ cards' = g.cards
                   /\ admins' = g.admins
                   /\ ret' = Ran("handle_admin_add_input", u, [kind |-> "bad_username"])
                   /\ UNCHANGED pending_admin_add
              ELSE /\ admins' = ad1
                   /\ pending_admin_add' = pending_admin_add \ {u}
                   /\ cards' = IF uid = None THEN g.cards
                               ELSE set_staff_gold_by_user_id(
                                      g.cards, Get(uid), Some("ADMIN"), None,
                                      CHOOSE a \in AllocChoices(g.cards, Get(uid), VisitDraws) : TRUE).cards
                   /\ ret' = Ran("handle_admin_add_input", u,
                                 [kind |-> "added", username |-> username])

\* The second bot, which shares the data files, delivers a broadcast of its own to
\* a guest and records it.
OtherBotBroadcast(target) ==
  /\ target \in DOMAIN users
  /\ Len(users[target].broadcast_events) < MaxBroadcastEvents
  /\ users' = record_broadcast_sent(users, target, "all", Some(OTHER_BOT_SOURCE), now)
  /\ ret' = Ran("other_bot_broadcast", target, RetNone)
  /\ UNCHANGED <<cards, admins, now, pending_visit_add, pending_admin_add, pending_broadcast, workers, files, recent_callback_keys>>

\* Four days pass.
DayTick ==
  /\ now + HoursPerDayTick <= 12 + MaxDayTicks * HoursPerDayTick
  /\ now' = now + HoursPerDayTick
  /\ ret' = Ran("tick", 0, RetNone)
  /\ UNCHANGED <<cards, users, admins, pending_visit_add, pending_admin_add, pending_broadcast, workers, files, recent_callback_keys>>

\* Selections and sends while the second bot sends and days pass.
NextBroadcast ==
  \/ \E u \in superadmin_ids, action \in RootActions : HandleAdminBroadcastRoot(u, action)
  \/ \E u \in superadmin_ids : HandleAdminBroadcastMake(u)
  \/ \E u \in superadmin_ids, text \in PostTexts : HandleAdminBroadcastText(u, text)
  \/ \E u \in superadmin_ids : HandleAdminBroadcastSend(u)
  \/ \E target \in OtherBotTargets : OtherBotBroadcast(target)
  \/ DayTick

SpecBroadcast == InitBroadcast /\ [][NextBroadcast]_vars

\* Selections and sends while the superadmin adds an admin.
NextPromotion ==
  \/ \E u \in BroadcastUsers, action \in RootActions : HandleAdminBroadcastRoot(u, action)
  \/ \E u \in superadmin_ids : HandleAdminBroadcastMake(u)
  \/ \E u \in superadmin_ids, text \in PostTexts : HandleAdminBroadcastText(u, text)
  \/ \E u \in superadmin_ids : HandleAdminBroadcastSend(u)
  \/ \E u \in superadmin_ids : HandleAdminAdminsAdd(u)
  \/ \E u \in superadmin_ids, text \in AdminTexts : HandleAdminAddInput(u, text)

SpecPromotion == InitBroadcast /\ [][NextPromotion]_vars

----------------------------------------------------------------------------
(* Promotion and demotion of admins, over a registry where guest 101 holds  *)
(* a card with confirmed visits.                                            *)

RoleUsers == {864921585, 101, 102}
RoleTexts == {"@alice", "@bobby", "x"}
DemoteNames == {"alice", "bobby"}
\* No visit, one visit, the five visits of BRONZE.
RoleVisits == {0, 1, 5}

\* The stores after the superadmin confirmed n visits of the target, one a day
\* on the n days before t.
RECURSIVE AfterVisits(_, _, _, _, _)
AfterVisits(us, c, target, n, t) ==
  IF n = 0 THEN [users |-> us, cards |-> c]
  ELSE LET r == confirm_visit(us, c, target, 864921585, BOT_SOURCE, t - n * HoursPerDay)
       IN  AfterVisits(r.users, r.cards, target, n - 1, t)

\* Guest 101 opened the bot, registered a card and had their visits confirmed;
\* the superadmin opened the bot.  Guest 102 is not known yet.
InitRoles ==
  \E n \in RoleVisits :
    \E g1 \in {guard_sync(EmptyDict, EmptyDict, [by_user |-> EmptyDict, by_number |-> EmptyDict],
                          101, TgUsername(101), Fmt04(10))} :
      \E v \in {AfterVisits(g1.users, ensure_level_card(g1.cards, 101, Fmt04(10)).cards,
                             101, n, 12)} :
        \E g2 \in {guard_sync(v.users, g1.admins, v.cards,
                              864921585, TgUsername(864921585), Fmt04(11))} :
          /\ cards = g2.cards
          /\ users = g2.users
          /\ admins = g2.admins
          /\ now = 12
          /\ pending_visit_add = EmptyDict
          /\ pending_admin_add = {}
          /\ pending_broadcast = EmptyDict
          /\ workers = IdleWorkers
          /\ files = NoFiles
          /\ recent_callback_keys = {}
          /\ ret = Ran("init", 0, RetNone)

\* handle_admin_demote: data is "admin_demote:<username>".
HandleAdminDemote(u, data) ==
  \E alloc \in AllocChoices(cards, u, VisitDraws) :
    \E g \in {Guard(u, alloc)} :
      /\ users' = g.users
      /\ pending_broadcast' = callback_pending(pending_broadcast, u, FALSE)
      /\ UNCHANGED <<now, pending_visit_add, pending_admin_add, workers, files, recent_callback_keys>>
      /\ IF ~is_superadmin(u)
         THEN /\ cards' = g.cards
              /\ admins' = g.admins
              /\ ret' = Ran("handle_admin_demote", u, [kind |-> "not_superadmin"])
         ELSE \E uid \in {demote_user_id(g.admins, g.users, normalize_username(data))} :
                /\ admins' = remove_admin_by_username(g.admins, normalize_username(data))
                /\ cards' = IF uid = None THEN g.cards
                            ELSE clear_staff_gold_by_user_id(g.cards, Get(uid)).cards
                /\ ret' = Ran("handle_admin_demote", u,
                              [kind |-> "demoted", username |-> normalize_username(data)])

NextRoles ==
  \/ \E u \in RoleUsers : HandleAdminAdminsAdd(u)
  \/ \E u \in superadmin_ids, text \in RoleTexts : HandleAdminAddInput(u, text)
  \/ \E u \in RoleUsers, data \in DemoteNames : HandleAdminDemote(u, data)

SpecRoles == InitRoles /\ [][NextRoles]_vars

----------------------------------------------------------------------------
(* is_admin_user over drawn admin tables.                                   *)

AdminNames == {"alice", "bobby"}
\* The table has no record of the name, a record never synced, or a record
\* synced to a user id.
AdminEntries == {"absent", "unsynced", "synced_101", "synced_102"}
AdminTableOf(entry) ==
  LET names == {k \in AdminNames : entry[k] # "absent"}
  IN  [k \in names |->
         [user_id |-> CASE entry[k] = "synced_101" -> Some(101)
                        [] entry[k] = "synced_102" -> Some(102)
                        [] OTHER -> None]]
CheckedIds == {101, 102, 103}
CheckedUsernames ==
  {None, Some(""), Some("Alice"), Some(" @Alice "), Some("@bobby"), Some("carol"), Some("@")}

InitAdminCheck ==
  /\ cards = [by_user |-> EmptyDict, by_number |-> EmptyDict]
  /\ users = EmptyDict
  /\ \E entry \in [AdminNames -> AdminEntries] : admins = AdminTableOf(entry)
  /\ now = 12
  /\ pending_visit_add = EmptyDict
  /\ pending_admin_add = {}
  /\ pending_broadcast = EmptyDict
  /\ workers = IdleWorkers
  /\ files = NoFiles
  /\ recent_callback_keys = {}
  /\ ret = Ran("init", 0, RetNone)

IsAdminUser(user_id, username) ==
  /\ ret' = Ran("is_admin_user", user_id,
                [username |-> username, out |-> is_admin_user(admins, user_id, username)])
  /\ UNCHANGED AllStores

NextAdminCheck == \E user_id \in CheckedIds, username \in CheckedUsernames : IsAdminUser(user_id, username)

SpecAdminCheck == InitAdminCheck /\ [][NextAdminCheck]_vars

----------------------------------------------------------------------------
(* The event store under every mutator of admin_stats.py, on records with   *)
(* every key.                                                               *)

MaxStoreTicks == 2
HoursPerStoreTick == 12
MaxClicks == 2
MaxStoreVisits == 2
MaxStoreBroadcasts == 1

StoreUsers == {101}
\* The user as Telegram reports them, before and after they changed their name
\* and dropped the username.
StoreIdentities ==
  {UserInfo(Some("Al"), None, Some("Alice")), UserInfo(Some("Alya"), Some("K"), None)}
StoreSources == {Some(BOT_SOURCE), None}
StoreTimes == {12 + k * HoursPerStoreTick : k \in 0..MaxStoreTicks}

\* The user's record before the step, None if there was none.
Before(u) == IF u \in DOMAIN users THEN Some(users[u]) ELSE None

StoreFrame == UNCHANGED <<cards, admins, now, pending_visit_add, pending_admin_add, pending_broadcast, workers, files, recent_callback_keys>>

TouchUser(u, user) ==
  /\ users' = touch_user_full(users, u, user, now)
  /\ ret' = Ran("touch_user", u, [user |-> user, before |-> Before(u)])
  /\ StoreFrame

IncClick(u) ==
  /\ u \in DOMAIN users => users[u].clicks < MaxClicks
  /\ users' = inc_click_full(users, u, now)
  /\ ret' = Ran("inc_click", u, [before |-> Before(u)])
  /\ StoreFrame

MarkUnsubscribed(u) ==
  /\ users' = mark_unsubscribed(users, u, now)
  /\ ret' = Ran("mark_unsubscribed", u, [before |-> Before(u)])
  /\ StoreFrame

AddVisit(u) ==
  /\ u \in DOMAIN users => users[u].visits < MaxStoreVisits
  /\ users' = add_visit(users, u, now)
  /\ ret' = Ran("add_visit", u, [before |-> Before(u)])
  /\ StoreFrame

AddVisitMarked(u, admin_id, source) ==
  /\ u \in DOMAIN users => users[u].visits < MaxStoreVisits
  /\ users' = add_visit_marked_full(users, u, admin_id, source, now)
  /\ ret' = Ran("add_visit_marked", u,
                [before |-> Before(u), by |-> admin_id, source |-> source])
  /\ StoreFrame

RecordBroadcastSent(u, kind) ==
  /\ u \in DOMAIN users => Len(events_of(users[u].broadcast_events)) < MaxStoreBroadcasts
  /\ users' = record_broadcast_sent_full(users, u, kind, Some(BOT_SOURCE), now)
  /\ ret' = Ran("record_broadcast_sent", u, [before |-> Before(u)])
  /\ StoreFrame

StoreTick ==
  /\ now + HoursPerStoreTick <= 12 + MaxStoreTicks * HoursPerStoreTick
  /\ now' = now + HoursPerStoreTick
  /\ ret' = Ran("tick", 0, RetNone)
  /\ UNCHANGED <<cards, users, admins, pending_visit_add, pending_admin_add, pending_broadcast, workers, files, recent_callback_keys>>

NextStore ==
  \/ \E u \in StoreUsers, user \in StoreIdentities : TouchUser(u, user)
  \/ \E u \in StoreUsers : IncClick(u)
  \/ \E u \in StoreUsers : MarkUnsubscribed(u)
  \/ \E u \in StoreUsers : AddVisit(u)
  \/ \E u \in StoreUsers, source \in StoreSources : AddVisitMarked(u, 864921585, source)
  \/ \E u \in StoreUsers : RecordBroadcastSent(u, "all")
  \/ StoreTick

SpecStore == Init /\ [][NextStore]_vars

----------------------------------------------------------------------------
(* Two callers inside the event store at once: each call is _load, a change *)
(* of the loaded document in memory, and _save of that document.            *)

MaxInterleaveEvents == 2

\* The calls in progress: a visit confirmed for user 101, a broadcast recorded
\* for user 102, a visit confirmed for user 102.
InterleaveJobs ==
  {<<"add_visit_marked", 101>>, <<"record_broadcast_sent", 102>>, <<"add_visit_marked", 102>>}

EventsOf(us, u) ==
  IF u \in DOMAIN us THEN Len(us[u].visit_events) + Len(us[u].broadcast_events) ELSE 0
EventCount(us) == EventsOf(us, 101) + EventsOf(us, 102)

\* The body of the call between data = _load() and _save(data).
mutated(job, data, t) ==
  IF JobOp(job) = "add_visit_marked"
  THEN add_visit_marked(data, JobUser(job), 864921585, Some(BOT_SOURCE), t)
  ELSE record_broadcast_sent(data, JobUser(job), "all", Some(BOT_SOURCE), t)

\* _save that keeps the records of the file which the written document lacks.
save_merged(file, data) == data @@ file

\* _save: the written document replaces the file's content as a whole.
save(file, data) == data

\* data = _load() and the change in memory, by worker w.
Load(w, job) ==
  /\ workers[w].pc = "idle"
  /\ EventCount(users) < MaxInterleaveEvents
  /\ workers' = [workers EXCEPT ![w] = [Idle EXCEPT !.pc = "loaded", !.job = job,
                                                    !.loaded = users,
                                                    !.data = mutated(job, users, now)]]
  /\ ret' = Ran("load", JobUser(job), [worker |-> w])
  /\ UNCHANGED <<cards, users, admins, now, pending_visit_add, pending_admin_add,
                 pending_broadcast, files, recent_callback_keys>>

\* _save(data) by worker w, the end of its call.
Save(w) ==
  /\ workers[w].pc = "loaded"
  /\ users' = save(users, workers[w].data)
  /\ workers' = [workers EXCEPT ![w] = Idle]
  /\ ret' = Ran("save", JobUser(workers[w].job),
                [worker |-> w, loaded |-> workers[w].loaded, replaced |-> users])
  /\ UNCHANGED <<cards, admins, now, pending_visit_add, pending_admin_add,
                 pending_broadcast, files, recent_callback_keys>>

NextInterleave ==
  \/ \E w \in WorkerIds, job \in InterleaveJobs : Load(w, job)
  \/ \E w \in WorkerIds : Save(w)

SpecInterleave == Init /\ [][NextInterleave]_vars

----------------------------------------------------------------------------
(* _save step by step: open ".tmp" for writing, write the document, rename  *)
(* ".tmp" onto the store file.                                              *)

\* Saves begun in one run.
MaxSaves == 3
\* Write calls one document takes.
DocParts == 2

\* What a position of a file holds: part i of document doc, or the gap left by
\* a write beyond the end of the file.
Part(doc, i) == <<doc, i>>
Hole == <<0, 0>>

\* The content after part is written at position pos.
WriteAt(content, pos, part) ==
  [i \in 1..(IF pos > Len(content) THEN pos ELSE Len(content)) |->
     IF i = pos THEN part ELSE IF i <= Len(content) THEN content[i] ELSE Hole]

\* tmp.write_text opens the file: ".tmp" is created if the name is free and
\* emptied if it exists, whoever is writing to it.
OpenTmp(w) ==
  /\ workers[w].pc = "idle"
  /\ files.saves < MaxSaves
  /\ \E ino \in (IF files.tmp = None
                  THEN {Cardinality(DOMAIN files.content) + 1}
                  ELSE files.tmp) :
       /\ files' = [files EXCEPT !.tmp = Some(ino), !.content = Put(@, ino, <<>>),
                                 !.saves = @ + 1]
       /\ workers' = [workers EXCEPT ![w] = [Idle EXCEPT !.pc = "writing", !.inode = ino,
                                                         !.doc = files.saves + 1]]
  /\ ret' = Ran("open", 0, [worker |-> w])
  /\ UNCHANGED <<cards, users, admins, now, pending_visit_add, pending_admin_add,
                 pending_broadcast, recent_callback_keys>>

\* tmp.write_text writes the next part of the document through its open file.
WritePart(w) ==
  /\ workers[w].pc = "writing"
  /\ \E pos \in {workers[w].written + 1} :
       /\ files' = [files EXCEPT !.content[workers[w].inode] =
                                   WriteAt(@, pos, Part(workers[w].doc, pos))]
       /\ workers' = [workers EXCEPT ![w].written = pos,
                                     ![w].pc = IF pos = DocParts THEN "written" ELSE "writing"]
  /\ ret' = Ran("write", 0, [worker |-> w])
  /\ UNCHANGED <<cards, users, admins, now, pending_visit_add, pending_admin_add,
                 pending_broadcast, recent_callback_keys>>

\* tmp.replace(DATA_FILE): the store file's name is bound to what ".tmp" names;
\* FileNotFoundError when ".tmp" is gone.
Replace(w) ==
  /\ workers[w].pc = "written"
  /\ IF files.tmp = None
     THEN files' = files /\ ret' = Ran("replace", 0, [worker |-> w, raised |-> TRUE])
     ELSE /\ files' = [files EXCEPT !.target = files.tmp, !.tmp = None]
          /\ ret' = Ran("replace", 0, [worker |-> w, raised |-> FALSE])
  /\ workers' = [workers EXCEPT ![w] = Idle]
  /\ UNCHANGED <<cards, users, admins, now, pending_visit_add, pending_admin_add,
                 pending_broadcast, recent_callback_keys>>

\* The process of worker w dies inside _save: what it wrote so far stays.
Crash(w) ==
  /\ workers[w].pc \in {"writing", "written"}
  /\ workers' = [workers EXCEPT ![w] = Idle]
  /\ ret' = Ran("crash", 0, [worker |-> w])
  /\ UNCHANGED <<cards, users, admins, now, pending_visit_add, pending_admin_add,
                 pending_broadcast, files, recent_callback_keys>>

NextSave ==
  \E w \in WorkerIds :
    \/ OpenTmp(w)
    \/ WritePart(w)
    \/ Replace(w)
    \/ Crash(w)

SpecSave == Init /\ [][NextSave]_vars

----------------------------------------------------------------------------
(* Claims about the tier functions and the card registry.                  *)

\* The stored record of user u's card.
CardRec(c, u) == c.by_number[c.by_user[u]]

\* The step is a run of operation op for user u: every action writes its own name
\* and user to ret, so a step that ends with them is a run of it (or changes nothing).
Did(op, u) == ret'.op = op /\ ret'.user = u

\* The tier the specification's table gives: the highest threshold <= v, and the
\* lowest tier below the first threshold.
TableTier(v) ==
  IF v >= 35 THEN <<"GOLD", 10>>
  ELSE IF v >= 15 THEN <<"SILVER", 7>>
  ELSE IF v >= 5 THEN <<"BRONZE", 5>>
  ELSE <<"IRON", 3>>

\* C2: for every visit count v >= 0, tier_for_visits(v) is the (label, discount) of
\* the highest threshold <= v of the table 1 IRON/3, 5 BRONZE/5, 15 SILVER/7,
\* 35 GOLD/10, and IRON/3 for v below the first threshold (v = 0).
C2_TierIsHighestThreshold ==
  ret.op = "tier_for_visits" => ret.val.tier = TableTier(ret.val.visits)

\* C3: ensure_level_card for a user without a card stores exactly one new card, with
\* visits = 0, and returns a card of tier IRON with a 3% discount.
C3_NewCardIsIron ==
  [][\A u \in CardUsers :
       (~HasCard(cards, u) /\ Did("ensure_level_card", u)) =>
         /\ HasCard(cards', u)
         /\ DOMAIN cards'.by_number = (DOMAIN cards.by_number) \cup {cards'.by_user[u]}
         /\ Cardinality(DOMAIN cards'.by_number) = Cardinality(DOMAIN cards.by_number) + 1
         /\ CardRec(cards', u).visits = 0
         /\ ret'.val.kind = "card"
         /\ ret'.val.card.level = "IRON"
         /\ ret'.val.card.discount = 3]_vars

\* The label and discount a staff card shows: staff_level, or ADMIN when it is
\* missing or blank; staff_discount, or 10 when it is missing or 0.
StaffLevel(rec) ==
  IF rec.staff_level = None \/ Strip(Get(rec.staff_level)) = ""
  THEN "ADMIN" ELSE Strip(Get(rec.staff_level))
StaffDiscount(rec) ==
  IF rec.staff_discount = None \/ Get(rec.staff_discount) = 0
  THEN 10 ELSE Get(rec.staff_discount)

\* C4: for a card with visits = n, setting the staff override leaves visits = n and
\* clearing it leaves visits = n and puts (level, discount) back to
\* tier_for_visits(n) in the same step (n = 5: BRONZE/5); while the override is set,
\* (level, discount) are the staff values whatever n is, also across add-visits.
C4_OverrideSetAndCleared ==
  /\ [](\A u \in DOMAIN cards.by_user :
          CardRec(cards, u).staff_gold =>
            /\ CardRec(cards, u).level = StaffLevel(CardRec(cards, u))
            /\ CardRec(cards, u).discount = StaffDiscount(CardRec(cards, u)))
  /\ [][\A u \in CardUsers :
          HasCard(cards, u) =>
            /\ Did("set_staff_gold_by_user_id", u) =>
                 /\ CardRec(cards', u).staff_gold
                 /\ CardRec(cards', u).visits = CardRec(cards, u).visits
            /\ Did("clear_staff_gold_by_user_id", u) =>
                 /\ ~CardRec(cards', u).staff_gold
                 /\ CardRec(cards', u).visits = CardRec(cards, u).visits
                 /\ <<CardRec(cards', u).level, CardRec(cards', u).discount>>
                      = tier_for_visits(CardRec(cards, u).visits)
                 /\ (CardRec(cards, u).visits = 5 =>
                       /\ CardRec(cards', u).level = "BRONZE"
                       /\ CardRec(cards', u).discount = 5)
            /\ (CardRec(cards, u).staff_gold /\ Did("add_visit_by_user_id", u)) =>
                 /\ CardRec(cards', u).staff_gold
                 /\ CardRec(cards', u).visits >= CardRec(cards, u).visits
                 /\ CardRec(cards', u).level = CardRec(cards, u).level
                 /\ CardRec(cards', u).discount = CardRec(cards, u).discount]_vars

\* A staff override was cleared on a card with 5 visits, which is BRONZE/5 again.
C4_Witness ==
  /\ ret.op = "clear_staff_gold_by_user_id"
  /\ ret.val.kind = "card"
  /\ ret.val.card.visits = 5
  /\ CardRec(cards, ret.val.card.user_id).level = "BRONZE"
  /\ \E u \in DOMAIN cards.by_user :
       CardRec(cards, u).staff_gold /\ CardRec(cards, u).visits > 0

\* C5: the card numbers of the users who have a card are pairwise distinct 4-digit
\* strings in 0010..9998, none with four identical digits.
C5_NumbersDistinctNoRepdigit ==
  \A u \in DOMAIN cards.by_user :
    LET s == cards.by_user[u]
    IN  /\ Len(s) = 4
        /\ \A i \in 1..4 : \E d \in 1..10 : Digits[d] = s[i]
        /\ NumberOf(s) >= 10 /\ NumberOf(s) <= 9998
        /\ ~(s[1] = s[2] /\ s[2] = s[3] /\ s[3] = s[4])
        /\ \A w \in DOMAIN cards.by_user : w # u => cards.by_user[w] # s

\* Every user of the registry has a card, allocated between other card operations.
C5_Witness ==
  /\ DOMAIN cards.by_user = CardUsers
  /\ \E u \in CardUsers : CardRec(cards, u).visits > 0
  /\ \E u \in CardUsers : CardRec(cards, u).staff_gold

\* C6: by_user and by_number agree (each user id has one card number, each card
\* number one user); a user who has a card keeps its number in every step, every
\* ensure, add-visits, set-override and clear-override on that user returns a card
\* with that number, and no step removes a card.
C6_OneCardPerUser ==
  /\ [](/\ \A u \in DOMAIN cards.by_user :
             /\ cards.by_user[u] \in DOMAIN cards.by_number
             /\ cards.by_number[cards.by_user[u]].user_id = u
        /\ \A n \in DOMAIN cards.by_number :
             /\ cards.by_number[n].user_id \in DOMAIN cards.by_user
             /\ cards.by_user[cards.by_number[n].user_id] = n)
  /\ [][/\ \A u \in DOMAIN cards.by_user :
             u \in DOMAIN cards'.by_user /\ cards'.by_user[u] = cards.by_user[u]
        /\ \A n \in DOMAIN cards.by_number :
             /\ n \in DOMAIN cards'.by_number
             /\ cards'.by_number[n].user_id = cards.by_number[n].user_id
        /\ \A u \in CardUsers :
             (/\ HasCard(cards, u)
              /\ \/ Did("ensure_level_card", u)
                 \/ Did("add_visit_by_user_id", u)
                 \/ Did("set_staff_gold_by_user_id", u)
                 \/ Did("clear_staff_gold_by_user_id", u)) =>
               /\ ret'.val.kind = "card"
               /\ ret'.val.card.card_number = cards.by_user[u]
               /\ ret'.val.card.user_id = u]_vars

\* Both users have a card and the last call, on a user who had one, returned it.
C6_Witness ==
  /\ DOMAIN cards.by_user = CardUsers
  /\ ret.op = "ensure_level_card"
  /\ ret.val.kind = "card"
  /\ ret.val.card.visits > 0

\* C7: an add-visits call with delta > 0 on a card adds exactly delta to visits; with
\* delta <= 0 it leaves the store as it is and returns the current card; no other
\* registry operation changes visits, so visits is the sum of the positive deltas
\* applied and never decreases.
C7_VisitsAddUp ==
  [][\A u \in CardUsers :
       /\ \A d \in Deltas :
            (Did("add_visit_by_user_id", u) /\ AddVisitByUserId(u, d)) =>
              IF d <= 0
              THEN cards' = cards /\ ret'.val = find_card_by_user_id(cards, u)
              ELSE HasCard(cards, u) =>
                     CardRec(cards', u).visits = CardRec(cards, u).visits + d
       /\ HasCard(cards, u) =>
            /\ HasCard(cards', u)
            /\ CardRec(cards', u).visits >= CardRec(cards, u).visits
            /\ CardRec(cards', u).visits # CardRec(cards, u).visits =>
                 /\ Did("add_visit_by_user_id", u)
                 /\ \E d \in Deltas : d > 0 /\ AddVisitByUserId(u, d)]_vars

\* One card got 3 visits and a call with delta <= 0 has just returned a card.
C7_Witness ==
  /\ ret.op = "add_visit_by_user_id"
  /\ ret.val.kind = "card"
  /\ ret.val.card.visits = 3
  /\ \E u \in DOMAIN cards.by_user : CardRec(cards, u).visits = 4

\* C8: a stored card without the staff flag has (level, discount) =
\* tier_for_visits(visits); one with the flag has (staff_level or ADMIN,
\* staff_discount or 10).
C8_LevelDerived ==
  \A n \in DOMAIN cards.by_number :
    LET rec == cards.by_number[n]
    IN  IF rec.staff_gold
        THEN rec.level = StaffLevel(rec) /\ rec.discount = StaffDiscount(rec)
        ELSE <<rec.level, rec.discount>> = tier_for_visits(rec.visits)

\* A staff card with visits and a visitor's card at BRONZE are both stored.
C8_Witness ==
  /\ \E n \in DOMAIN cards.by_number :
       /\ cards.by_number[n].staff_gold
       /\ cards.by_number[n].visits = 5
       /\ cards.by_number[n].staff_discount = {15}
  /\ \E n \in DOMAIN cards.by_number :
       ~cards.by_number[n].staff_gold /\ cards.by_number[n].level = "BRONZE"

----------------------------------------------------------------------------
(* Claims about the visit flow.                                            *)

\* The business day an instant belongs to: business days change at 06:00.
BusinessDay(t) == (t - 6) \div 24

VisitEvents(us, u) == IF u \in DOMAIN us THEN us[u].visit_events ELSE <<>>

\* A visit of this source is on record for the business day of instant t.
CountedThatDay(us, u, source, t) ==
  \E i \in 1..Len(VisitEvents(us, u)) :
    /\ event_src(VisitEvents(us, u)[i]) = source
    /\ BusinessDay(VisitEvents(us, u)[i].ts) = BusinessDay(t)

\* C1: when a staff member who is not the card's owner sends the number of a card
\* to the visit input, the run records a visit only if no visit of this bot's
\* source is on record for the card's user in the current Tyumen business day
\* [06:00, next day 06:00): it then adds one to the card's visits and appends one
\* event.  Every later run in the same window answers that the day's visit is
\* already counted and leaves the card's visits and the user's visit_events
\* unchanged; a run in the next window is accepted again.  So no user ever has two
\* events of this source in one business day.
C1_OneVisitPerBusinessDay ==
  /\ [](\A u \in DOMAIN users :
          \A i, j \in 1..Len(users[u].visit_events) :
            (/\ i < j
             /\ event_src(users[u].visit_events[i]) = BOT_SOURCE
             /\ event_src(users[u].visit_events[j]) = BOT_SOURCE)
            => BusinessDay(users[u].visit_events[i].ts)
                 < BusinessDay(users[u].visit_events[j].ts))
  /\ [][\A u \in Users :
          (Did("handle_admin_visit_input", u) /\ ret'.val.kind \in {"duplicate", "counted"})
          => LET target == Get(ret'.val.target)
             IN  /\ target # u
                 /\ IF CountedThatDay(users, target, BOT_SOURCE, now)
                    THEN /\ ret'.val.kind = "duplicate"
                         /\ CardRec(cards', target).visits = CardRec(cards, target).visits
                         /\ VisitEvents(users', target) = VisitEvents(users, target)
                    ELSE /\ ret'.val.kind = "counted"
                         /\ CardRec(cards', target).visits = CardRec(cards, target).visits + 1
                         /\ VisitEvents(users', target)
                              = Append(VisitEvents(users, target),
                                       [ts |-> now, by |-> u, src |-> Some(BOT_SOURCE)])]_vars

\* A run is rejected as a duplicate for a user whose visits of this source were
\* accepted on two business days, while a visit of the other source stands on the
\* same day as one of them.
C1_Witness ==
  /\ ret.op = "handle_admin_visit_input"
  /\ ret.val.kind = "duplicate"
  /\ LET ev == VisitEvents(users, Get(ret.val.target))
     IN  /\ \E i, j \in 1..Len(ev) :
               /\ event_src(ev[i]) = BOT_SOURCE /\ event_src(ev[j]) = BOT_SOURCE
               /\ BusinessDay(ev[i].ts) # BusinessDay(ev[j].ts)
         /\ \E i, j \in 1..Len(ev) :
               /\ event_src(ev[i]) = BOT_SOURCE /\ event_src(ev[j]) = OTHER_BOT_SOURCE
               /\ BusinessDay(ev[i].ts) = BusinessDay(ev[j].ts)
         /\ CountedThatDay(users, Get(ret.val.target), BOT_SOURCE, now)

----------------------------------------------------------------------------
(* Claims about the monthly competition.                                   *)

\* The month before the month of "now", and user u's visits of this bot's source in it.
PrevMonth == prev_month(tyumen_date(now))
PrevMonthStart == month_start(PrevMonth[1], PrevMonth[2])
PrevMonthEnd == month_start(tyumen_date(now).year, tyumen_date(now).month)
PrevMonthVisits(u) == CountEvents(users, u, Some(BOT_SOURCE), PrevMonthStart, PrevMonthEnd)
Launched == ~MonthBefore(PrevMonth, <<2026, 3>>)

\* C9: for a user who is in the staff set when asked, bonus_discount_for_user
\* returns 0 and medals_for_user returns no medal, whatever the user's visit counts.
C9_StaffGetNoBonusNoMedals ==
  /\ (ret.op = "bonus_discount_for_user" /\ ret.user \in staff_user_ids_known(admins, users))
       => ret.val = 0
  /\ (ret.op = "medals_for_user" /\ ret.user \in staff_user_ids_known(admins, users))
       => ret.val = <<>>

\* The bonus is asked for a staff user who is not the owner, whose visit count was
\* the strictly highest of the previous month and the first of the leaderboard of
\* the month before, while eligible users have visits in the previous month as well.
C9_Witness ==
  /\ ret.op = "bonus_discount_for_user"
  /\ ret.user \in staff_user_ids_known(admins, users) \ superadmin_ids
  /\ Launched
  /\ \A w \in (DOMAIN users) \ {ret.user} : PrevMonthVisits(w) < PrevMonthVisits(ret.user)
  /\ \E w \in (DOMAIN users) \ staff_user_ids_known(admins, users) : PrevMonthVisits(w) > 0
  /\ LET em   == prev_month([year |-> PrevMonth[1], month |-> PrevMonth[2]])
         rows == top_users_by_visits_in_month(users, em[1], em[2], Some(BOT_SOURCE), 3, FALSE)
     IN  ~MonthBefore(em, <<2026, 3>>) /\ Len(rows) > 1 /\ rows[1].user_id = ret.user

\* C10: once the previous month is March 2026 or later, its bonus map rewards the
\* eligible (non-staff) users with the most visits in that month: three of them when
\* at least three have visits, all of them otherwise; nobody else is in the map; the
\* bonuses are 10, 6 and 3 in the order of the visit counts.  Staff with more
\* visits take no place away.
C10_TopThreeEligibleRewarded ==
  (ret.op = "monthly_bonus_map_for_prev_month" /\ Launched)
  => LET eligible == {u \in DOMAIN users :
                        /\ u \notin staff_user_ids_known(admins, users)
                        /\ PrevMonthVisits(u) > 0}
         m == ret.val
         n == IF Cardinality(eligible) < 3 THEN Cardinality(eligible) ELSE 3
     IN  /\ DOMAIN m \subseteq eligible
         /\ Cardinality(DOMAIN m) = n
         /\ \A a \in DOMAIN m : \A b \in eligible \ DOMAIN m :
              PrevMonthVisits(b) <= PrevMonthVisits(a)
         /\ \A a, b \in DOMAIN m : PrevMonthVisits(a) > PrevMonthVisits(b) => m[a] > m[b]
         /\ {m[a] : a \in DOMAIN m} = {<<10, 6, 3>>[k] : k \in 1..n}

----------------------------------------------------------------------------
(* Claims about the leaderboard.                                            *)

\* User u's visits of this bot's source in the month ym.
MonthVisits(u, ym) ==
  CountEvents(users, u, Some(BOT_SOURCE), month_start(ym[1], ym[2]),
              IF ym[2] = 12 THEN month_start(ym[1] + 1, 1) ELSE month_start(ym[1], ym[2] + 1))

\* Row a stands before row b in the claimed order: more visits, or as many and the
\* smaller user id.
RanksBefore(a, b) ==
  a.visits > b.visits \/ (a.visits = b.visits /\ a.user_id < b.user_id)

\* C11: the rows top_users_by_visits_in_month returns are ordered by visit count
\* descending and, among equal counts, by ascending user id; the limit cuts the list
\* after that ordering, so every user with visits who is left out stands after
\* every row, and a list shorter than the limit holds every user with visits.
C11_RowsByCountThenAscendingId ==
  ret.op = "top_users_by_visits_in_month"
  => LET rows == ret.val.rows
         ym   == <<ret.val.year, ret.val.month>>
         lim  == IF ret.val.limit <= 0 THEN 3 ELSE ret.val.limit
         with == {u \in DOMAIN users : MonthVisits(u, ym) > 0}
         in   == {rows[i].user_id : i \in 1..Len(rows)}
     IN  /\ \A i \in 1..Len(rows) :
              rows[i].user_id \in with /\ rows[i].visits = MonthVisits(rows[i].user_id, ym)
         /\ \A i, j \in 1..Len(rows) : i < j => RanksBefore(rows[i], rows[j])
         /\ Len(rows) = (IF Cardinality(with) < lim THEN Cardinality(with) ELSE lim)
         /\ \A u \in with \ in : \A i \in 1..Len(rows) :
              RanksBefore(rows[i], [user_id |-> u, visits |-> MonthVisits(u, ym)])

\* C12 as claimed: top_users_by_visits_in_month returns no row for a month before
\* March 2026.
C12_LeaderboardEmptyBeforeLaunch ==
  (ret.op = "top_users_by_visits_in_month"
     /\ MonthBefore(<<ret.val.year, ret.val.month>>, <<2026, 3>>))
  => ret.val.rows = <<>>

\* C12 as amended: the bonus map built for a previous month before March 2026 is
\* empty, also when the store holds visit events of that month; the launch test is
\* made by the caller, top_users_by_visits_in_month itself counts any month.
C12_NoBonusBeforeLaunch ==
  (ret.op = "monthly_bonus_map_for_prev_month" /\ ~Launched) => ret.val = EmptyDict

\* The bonus map is asked in March 2026 while eligible users have visits in February.
C12_Witness ==
  /\ ret.op = "monthly_bonus_map_for_prev_month"
  /\ ~Launched
  /\ \E u \in (DOMAIN users) \ staff_user_ids_known(admins, users) : PrevMonthVisits(u) > 0

\* The eligible users with visits in the month ym, and the places user u can hold
\* among them by visit count: behind everyone with more visits, and anywhere among
\* those with as many.
EligibleWith(ym) ==
  {w \in (DOMAIN users) \ staff_user_ids_known(admins, users) : MonthVisits(w, ym) > 0}
PlacesOf(u, ym) ==
  (Cardinality({w \in EligibleWith(ym) : MonthVisits(w, ym) > MonthVisits(u, ym)}) + 1)
    .. Cardinality({w \in EligibleWith(ym) : MonthVisits(w, ym) >= MonthVisits(u, ym)})

\* C13: total_discount_for_user(u, base) returns base + bonus(u) and bonus(u); the
\* bonus is 0 for staff, when the previous month is before March 2026, and for a
\* user outside the previous month's first three eligible users; otherwise it is
\* 10, 6 or 3 by the user's place in that month.  Only the previous month counts.
C13_TotalIsBasePlusBonus ==
  ret.op = "total_discount_for_user"
  => /\ ret.val.total = ret.val.base + ret.val.bonus
     /\ IF ret.user \in staff_user_ids_known(admins, users) \/ ~Launched
           \/ PrevMonthVisits(ret.user) = 0
        THEN ret.val.bonus = 0
        ELSE ret.val.bonus \in {IF k <= 3 THEN <<10, 6, 3>>[k] ELSE 0 :
                                  k \in PlacesOf(ret.user, PrevMonth)}

\* The medals user u can have earned in the month ym: none before March 2026 or
\* without visits, else the medal of one of the places the user can hold.
MedalsOfMonth(u, ym) ==
  IF MonthBefore(ym, <<2026, 3>>) \/ MonthVisits(u, ym) = 0 THEN {<<>>}
  ELSE {IF k <= 3 THEN <<(<<"medal1", "medal2", "medal3">>)[k]>> ELSE <<>> :
          k \in PlacesOf(u, ym)}

\* C14: for an eligible user medals_for_user holds one medal for each completed
\* month since March 2026 in which the user was among the first three eligible
\* users (gold, silver, bronze by place), oldest month first, and nothing else.
\* The store holds visits in the previous month and the month before it only.
C14_OneMedalPerPlacedMonth ==
  (ret.op = "medals_for_user" /\ ret.user \notin staff_user_ids_known(admins, users))
  => \E a \in MedalsOfMonth(ret.user, earlier_month(now)) :
       \E b \in MedalsOfMonth(ret.user, PrevMonth) : ret.val = a \o b

----------------------------------------------------------------------------
(* Claims about broadcasts and segments.                                    *)

\* User uid has a broadcast event that is not a contest and lies within the last
\* `days` days of instant t (the instant exactly `days` days ago included).
CoolingDown(us, uid, days, t) ==
  /\ uid \in DOMAIN us
  /\ \E i \in 1..Len(us[uid].broadcast_events) :
       /\ us[uid].broadcast_events[i].kind # "contest"
       /\ us[uid].broadcast_events[i].ts >= t - days * 24

\* C16: filter_user_ids_by_broadcast_cooldown(ids, 7) returns the input ids, in
\* input order, whose user has no non-contest broadcast event within the last 7
\* days; ids without a record or with an empty history are returned.
C16_CooldownFilterExact ==
  ret.op = "filter_user_ids_by_broadcast_cooldown"
  => LET ids == ret.val.ids
         out == ret.val.out
     IN  /\ out = Filter(ids, {uid \in Range(ids) : ~CoolingDown(users, uid, 7, now)})
         /\ \A i \in 1..Len(ids) :
              (ids[i] \notin DOMAIN users \/ users[ids[i]].broadcast_events = <<>>)
              => \E k \in 1..Len(out) : out[k] = ids[i]

\* Of three ids the filter drops a user reached 7 days ago or less, and keeps the
\* id without a record and a user whose only recent event is a contest, in input
\* order (102 before 101).
C16_Witness ==
  /\ ret.op = "filter_user_ids_by_broadcast_cooldown"
  /\ ret.val.ids = <<102, 103, 101>>
  /\ users[102].broadcast_events = <<SentAgo("inactive:14", 200), SentAgo("contest", 24)>>
  /\ users[101].broadcast_events = <<SentAgo("all", 168)>>
  /\ ret.val.out = <<102, 103>>


\* The visit events of user uid that count for the given sources, legacy events
\* counting as visits of the lounge bot.
VisitsFrom(uid, sources) ==
  {i \in 1..Len(users[uid].visit_events) : event_src(users[uid].visit_events[i]) \in sources}

\* User uid is active, not staff, has a visit from the sources, and every such
\* visit is more than `days` days old.
LongAway(uid, sources, days) ==
  /\ uid \in DOMAIN users
  /\ users[uid].unsubscribed_at = None
  /\ uid \notin staff_user_ids_known(admins, users)
  /\ VisitsFrom(uid, sources) # {}
  /\ \A i \in VisitsFrom(uid, sources) : users[uid].visit_events[i].ts < now - days * 24

\* C19 as stated: the inactive-since(14) segment holds only active non-staff users
\* who have a visit event and whose most recent visit, of whatever source, is more
\* than 14 days old.
C19_InactiveByLatestVisit ==
  (ret.op = "broadcast_targets" /\ ret.val.kind = Kind("inactive", 14, ""))
  => \A uid \in Range(ret.val.targets) : LongAway(uid, {BOT_SOURCE, OTHER_BOT_SOURCE}, 14)

\* C19 amended: the inactive-since(14) segment holds only active non-staff users
\* who have a visit event of this bot's source and whose most recent visit of this
\* bot's source is more than 14 days old; visits recorded by the other bot that
\* shares the store do not count.
C19_InactiveByLatestOwnVisit ==
  (ret.op = "broadcast_targets" /\ ret.val.kind = Kind("inactive", 14, ""))
  => \A uid \in Range(ret.val.targets) : LongAway(uid, {BOT_SOURCE}, 14)

\* The segment holds user 101, last seen just over 14 days ago, and leaves out user
\* 102, whose only visit is exactly 14 days old.
C19_Witness ==
  /\ ret.op = "broadcast_targets"
  /\ ret.val.kind = Kind("inactive", 14, "")
  /\ users[101].visit_events = <<VisitAgo(None, 337)>>
  /\ users[102].visit_events = <<VisitAgo(Some(BOT_SOURCE), 336)>>
  /\ users[102].unsubscribed_at = None
  /\ users[102].broadcast_events = <<>>
  /\ admins = EmptyDict
  /\ ret.val.targets = <<101>>

\* The visit counters 1 or 2 below the BRONZE, SILVER and GOLD thresholds.
NearThreshold == {TIERS[i][1] - d : i \in 2..4, d \in {1, 2}}

\* The active non-staff users with a non-staff card whose counter is in the set
\* and who pass the cooldown filter.
GuestsWithVisits(counters) ==
  {uid \in DOMAIN users :
     /\ users[uid].unsubscribed_at = None
     /\ uid \notin staff_user_ids_known(admins, users)
     /\ HasCard(cards, uid)
     /\ ~cards.by_number[cards.by_user[uid]].staff_gold
     /\ cards.by_number[cards.by_user[uid]].visits \in counters
     /\ ~CoolingDown(users, uid, 7, now)}

\* C20: the upgrade segments together select exactly the active non-staff users
\* with a non-staff card whose visits counter is 1 or 2 below the BRONZE, SILVER or
\* GOLD threshold and who pass the cooldown filter.
C20_UpgradeSelectsNearThreshold ==
  ret.op = "upgrade_segments"
  => UNION {Range(ret.val[code]) : code \in DOMAIN ret.val} = GuestsWithVisits(NearThreshold)

\* The step is a send that went out, or a selection of the given segment.
Sent == ret'.op = "handle_admin_broadcast_send" /\ ret'.val.kind = "sent"
Selected(segment) ==
  /\ ret'.op = "handle_admin_broadcast_root"
  /\ ret'.val.kind = "selected"
  /\ ret'.val.segment = segment

\* A non-contest broadcast was recorded for user uid less than 7 days before now.
ReachedLately(uid) ==
  /\ uid \in DOMAIN users
  /\ \E i \in 1..Len(users[uid].broadcast_events) :
       /\ users[uid].broadcast_events[i].kind # "contest"
       /\ now - users[uid].broadcast_events[i].ts < 7 * 24

ActiveGuestsAfter == active_user_ids(users') \ staff_user_ids_known(admins', users')

\* C17: the contest segment is every active non-staff user, and a contest send
\* reaches every stored target who is not staff, whatever broadcasts they got;
\* the segment "all" leaves out only users with a non-contest broadcast in the last
\* 7 days, and its send likewise, so a recorded contest broadcast excludes nobody.
\* (A target drops out of a send only when copying the post to them fails.)
C17_ContestExemptBothWays ==
  [][/\ Selected("contest") => Range(ret'.val.targets) = ActiveGuestsAfter
     /\ Selected("all")
        => Range(ret'.val.targets) = {uid \in ActiveGuestsAfter : ~CoolingDown(users', uid, 7, now)}
     /\ Sent
        => \A uid \in Range(ret'.val.stored) \ UnreachableGuests :
             (uid \in Range(ret'.val.delivered))
             <=> /\ uid \notin staff_user_ids_known(admins', users')
                 /\ ret'.val.segment = "contest" \/ ~CoolingDown(users, uid, 7, now)]_vars

\* A contest send has just reached user 102 right after a broadcast to "all", and
\* user 101 got a broadcast to "all" right after a contest broadcast.
C17_Witness ==
  /\ ret.op = "handle_admin_broadcast_send"
  /\ ret.val.kind = "sent"
  /\ ret.val.segment = "contest"
  /\ 102 \in Range(ret.val.delivered)
  /\ Len(users[102].broadcast_events) = 2
  /\ users[102].broadcast_events[1].kind = "all"
  /\ users[102].broadcast_events[2].ts - users[102].broadcast_events[1].ts < 7 * 24
  /\ Len(users[101].broadcast_events) >= 2
  /\ users[101].broadcast_events[1].kind = "contest"
  /\ users[101].broadcast_events[2].kind = "all"
  /\ users[101].broadcast_events[2].ts - users[101].broadcast_events[1].ts < 7 * 24

\* C18: a send delivers to no user who is in the staff set at the time of the
\* send, whatever list was stored at selection.
C18_NoDeliveryToStaff ==
  [][Sent => Range(ret'.val.delivered) \cap staff_user_ids_known(admins', users') = {}]_vars

\* User 101 was put on the stored list as a guest and made admin before the send:
\* the post goes to user 102 only.
C18_Witness ==
  /\ ret.op = "handle_admin_broadcast_send"
  /\ ret.val.kind = "sent"
  /\ ret.val.stored = <<101, 102>>
  /\ ret.val.delivered = <<102>>
  /\ "alice" \in DOMAIN admins
  /\ users[101].broadcast_events = <<>>

----------------------------------------------------------------------------
(* Claims about the stores: frames, the user record, the visit log.         *)

\* C21: building the target list of a segment, whatever its kind, leaves the
\* user-events store, the card registry and the admin-roles store as they were.
C21_TargetsLeaveStoresAlone ==
  [][ret'.op = "broadcast_targets" =>
       /\ users' = users
       /\ cards' = cards
       /\ admins' = admins]_vars

\* A band segment was built and selected somebody.
C21_Witness ==
  /\ ret.op = "broadcast_targets"
  /\ KindSeg(ret.val.kind) = "inactive_range"
  /\ ret.val.targets # <<>>

\* A record apart from its last_seen.
Masked(rec) == [rec EXCEPT !.last_seen = 0]

\* C22: whatever happened before, a mark_unsubscribed included, touch_user(u)
\* leaves unsubscribed_at null, so u is among the active users; on an existing
\* record it keeps joined_at, clicks, the visit events and the broadcast events;
\* and a second touch with the same identity changes nothing but last_seen.
C22_TouchResubscribesKeepsHistory ==
  [][ret'.op = "touch_user" =>
       /\ users'[ret'.user].unsubscribed_at = None
       /\ ret'.user \in active_user_ids(users')
       /\ ret'.user \in DOMAIN users =>
            /\ users'[ret'.user].joined_at = users[ret'.user].joined_at
            /\ users'[ret'.user].clicks = users[ret'.user].clicks
            /\ events_of(users'[ret'.user].visit_events)
                 = events_of(users[ret'.user].visit_events)
            /\ events_of(users'[ret'.user].broadcast_events)
                 = events_of(users[ret'.user].broadcast_events)
       /\ \A t \in StoreTimes :
            t >= now' =>
              Masked(touch_user_full(users', ret'.user, ret'.val.user, t)[ret'.user])
                = Masked(users'[ret'.user])]_vars

\* An unsubscribed user with clicks, a visit and a broadcast came back.
C22_Witness ==
  /\ ret.op = "touch_user"
  /\ ret.val.before # None
  /\ Get(ret.val.before).unsubscribed_at # None
  /\ Get(ret.val.before).joined_at < now
  /\ users[ret.user].unsubscribed_at = None
  /\ users[ret.user].clicks > 0
  /\ events_of(users[ret.user].visit_events) # <<>>
  /\ events_of(users[ret.user].broadcast_events) # <<>>

\* xs is a prefix of ys.
IsPrefix(xs, ys) == Len(xs) <= Len(ys) /\ SubSeq(ys, 1, Len(xs)) = xs

\* The visit events of the record before the step.
EventsBefore(before) == IF before = None THEN <<>> ELSE events_of(Get(before).visit_events)

\* C23: add_visit_marked appends exactly one event [ts, by, src] to the user's
\* visit events, on a day that already has a visit as well; and no operation of
\* the event store drops a record or removes, reorders or edits a visit event:
\* the visit events before a step are a prefix of those after it.
C23_VisitLogAppendOnly ==
  [][/\ ret'.op = "add_visit_marked" =>
          events_of(users'[ret'.user].visit_events)
            = Append(EventsBefore(ret'.val.before),
                     [ts |-> now, by |-> Some(ret'.val.by),
                      src |-> Some(IF norm_source(ret'.val.source) = None
                                   THEN VISIT_LEGACY_SRC ELSE Get(ret'.val.source))])
     /\ \A u \in DOMAIN users :
          /\ u \in DOMAIN users'
          /\ IsPrefix(events_of(users[u].visit_events), events_of(users'[u].visit_events))]_vars

\* A second visit was marked in the business day of the first.
C23_Witness ==
  /\ ret.op = "add_visit_marked"
  /\ Len(EventsBefore(ret.val.before)) = 1
  /\ tyumen_window_start(EventsBefore(ret.val.before)[1].ts) = tyumen_window_start(now)
  /\ Len(events_of(users[ret.user].visit_events)) = 2

----------------------------------------------------------------------------
(* Claims about admins and the visit input.                                 *)

\* The users the name stands for: the one the admin record is synced to and the
\* ones whose stored username is the name.
NamedUsers(ad, us, name) ==
  {uid \in DOMAIN us :
     \/ name \in DOMAIN ad /\ ad[name].user_id = Some(uid)
     \/ us[uid].username # None /\ normalize_username(Get(us[uid].username)) = name}

\* C24: adding an admin by username records the admin and, when the event store
\* knows a user of that name, leaves that user with a card (made if there was
\* none) that carries the staff override, with its visits as before; demoting
\* removes the admin record and leaves the card of the user of that name without
\* the override, its visits as before and its level and discount those of its
\* visits.
C24_PromoteSetsDemoteClears ==
  [][/\ (ret'.op = "handle_admin_add_input" /\ ret'.val.kind = "added") =>
          /\ ret'.val.username \in DOMAIN admins'
          /\ \A uid \in DOMAIN users' :
               find_user_id_by_username(users', ret'.val.username) = Some(uid) =>
                 /\ HasCard(cards', uid)
                 /\ CardRec(cards', uid).staff_gold
                 /\ CardRec(cards', uid).level = "ADMIN"
                 /\ CardRec(cards', uid).discount = 10
                 /\ HasCard(cards, uid) =>
                      CardRec(cards', uid).visits = CardRec(cards, uid).visits
     /\ (ret'.op = "handle_admin_demote" /\ ret'.val.kind = "demoted") =>
          /\ ret'.val.username \notin DOMAIN admins'
          /\ \A uid \in NamedUsers(admins, users', ret'.val.username) :
               HasCard(cards', uid) =>
                 /\ ~CardRec(cards', uid).staff_gold
                 /\ HasCard(cards, uid)
                 /\ CardRec(cards', uid).visits = CardRec(cards, uid).visits
                 /\ <<CardRec(cards', uid).level, CardRec(cards', uid).discount>>
                      = tier_for_visits(CardRec(cards', uid).visits)]_vars

\* Alice, promoted by username and not seen since, was demoted: her card is
\* BRONZE for its five visits again; Bobby, promoted when he had no card, keeps
\* the staff card that was made for him.
C24_Witness ==
  /\ ret.op = "handle_admin_demote"
  /\ ret.val.kind = "demoted"
  /\ ret.val.username = "alice"
  /\ HasCard(cards, 101)
  /\ CardRec(cards, 101).visits = 5
  /\ CardRec(cards, 101).level = "BRONZE"
  /\ "bobby" \in DOMAIN admins
  /\ admins["bobby"].user_id = None
  /\ HasCard(cards, 102)
  /\ CardRec(cards, 102).staff_gold

\* The username is given: not None and not the empty string.
Given(username) == username # None /\ Get(username) # ""

\* C25 as stated: is_admin_user(user_id, username) is true exactly when the
\* normalized username is a key of the admin table, whatever user_id is.
C25_AdminByUsernameOnly ==
  ret.op = "is_admin_user" =>
    (ret.val.out <=> /\ ret.val.username # None
                     /\ normalize_username(Get(ret.val.username)) \in DOMAIN admins)

\* C25, amended: with a username given, is_admin_user is true exactly when the
\* normalized username is a key of the admin table, whatever user_id is; without
\* one it is true exactly when some admin record is synced to user_id.
C25_AdminByUsernameElseSyncedId ==
  ret.op = "is_admin_user" =>
    IF Given(ret.val.username)
    THEN ret.val.out <=> normalize_username(Get(ret.val.username)) \in DOMAIN admins
    ELSE ret.val.out <=> \E k \in DOMAIN admins : admins[k].user_id = Some(ret.user)

\* " @Alice " was accepted for a user id the table does not hold, while another
\* record is synced to a user id.
C25_Witness ==
  /\ ret.op = "is_admin_user"
  /\ ret.val.username = Some(" @Alice ")
  /\ ret.val.out
  /\ ret.user = 103
  /\ "bobby" \in DOMAIN admins
  /\ admins["bobby"].user_id = Some(102)

\* C26: no visit event carries the visiting user as its confirmer; and when a
\* staff member sends the number of their own card, the run is rejected and
\* leaves every card's visits and every user's visit events as they were.
C26_NoSelfAward ==
  /\ [](\A u \in DOMAIN users :
          \A i \in 1..Len(users[u].visit_events) : users[u].visit_events[i].by # u)
  /\ [][\A u \in Users :
          Did("handle_admin_visit_input", u) =>
            /\ ret'.val.kind \in {"duplicate", "counted"} => Get(ret'.val.target) # u
            /\ ret'.val.kind = "self" =>
                 /\ Get(ret'.val.target) = u
                 /\ \A x \in DOMAIN cards.by_user :
                      CardRec(cards', x).visits = CardRec(cards, x).visits
                 /\ \A x \in DOMAIN users :
                      users'[x].visit_events = users[x].visit_events]_vars

\* The superadmin sent the number of their own card while a guest's visit
\* stands in the log.
C26_Witness ==
  /\ ret.op = "handle_admin_visit_input"
  /\ ret.val.kind = "self"
  /\ HasCard(cards, ret.user)
  /\ CardRec(cards, ret.user).visits = 0
  /\ \E x \in DOMAIN users : Len(users[x].visit_events) > 0

\* The text is a string of decimal digits.
AllDigits(text) ==
  /\ text # <<>>
  /\ \A i \in 1..Len(text) : text[i] \in {"0", "1", "2", "3", "4", "5", "6", "7", "8", "9"}

\* C27: in the visit input a text that is no number is answered with "need a
\* number" and a number of no card with "not found"; both runs leave every
\* card's visits and every user's visit events as they were and keep the chat
\* waiting for a number.  find_card_by_number, find_card_by_user_id and
\* add_visit_by_user_id return None for a key the registry does not hold and
\* leave the registry as it was.
C27_UnknownInputsChangeNothing ==
  [][/\ \A u \in Users :
          (Did("handle_admin_visit_input", u) /\ ret'.val.kind # "not_staff") =>
            /\ ~AllDigits(ret'.val.text) => ret'.val.kind = "need_number"
            /\ (AllDigits(ret'.val.text) /\ ret'.val.text \notin DOMAIN cards'.by_number)
                 => ret'.val.kind = "not_found"
            /\ ret'.val.kind \in {"need_number", "not_found"} =>
                 /\ \A x \in DOMAIN cards.by_user :
                      CardRec(cards', x).visits = CardRec(cards, x).visits
                 /\ \A x \in DOMAIN users :
                      users'[x].visit_events = users[x].visit_events
                 /\ u \in DOMAIN pending_visit_add'
                 /\ pending_visit_add'[u] = pending_visit_add[u]
     /\ (ret'.op = "find_card_by_number" /\ ret'.val.key \notin DOMAIN cards.by_number)
          => ret'.val.out = RetNone /\ cards' = cards
     /\ (ret'.op = "find_card_by_user_id" /\ ret'.user \notin DOMAIN cards.by_user)
          => ret'.val.out = RetNone /\ cards' = cards
     /\ (ret'.op = "add_visit_by_user_id" /\ ret'.user \notin DOMAIN cards.by_user)
          => ret'.val.out = RetNone /\ cards' = cards]_vars

\* A number of no card was answered with "not found" while a visit stands on a
\* guest's card.
C27_Witness ==
  /\ ret.op = "handle_admin_visit_input"
  /\ ret.val.kind = "not_found"
  /\ ret.user \in DOMAIN pending_visit_add
  /\ \E x \in DOMAIN cards.by_user : CardRec(cards, x).visits > 0

----------------------------------------------------------------------------
(* Card allocation in a registry that is full but for a few numbers.        *)

\* The numbers of 0010..9998 that are no repdigit.
AllNumbers == {n \in 10..9998 : ~is_bad_number(n)}

\* The numbers a drawn registry may have left free.
FreeCandidates == {10, 1234, 9998}

\* The numbers the random attempts of one call draw: repdigits only, the two
\* ends of the range, numbers from the middle.
AttemptDraws == {{1111, 2222}, {10, 9998}, {1234, 5001}}

AllocUsers == {101, 102}

\* The registry in which every number of AllNumbers but the free ones is the
\* guest card of its own user.
RegistryBut(free) ==
  [by_user   |-> [uid \in {100000 + n : n \in AllNumbers \ free} |-> Fmt04(uid - 100000)],
   by_number |-> [num \in {Fmt04(n) : n \in AllNumbers \ free} |->
                    recalc([user_id |-> 100000 + NumberOf(num), level |-> "IRON",
                            discount |-> 3, visits |-> 1, staff_gold |-> FALSE,
                            staff_level |-> None, staff_discount |-> None])]]

InitAlloc ==
  /\ \E free \in SUBSET FreeCandidates : cards = RegistryBut(free)
  /\ users = EmptyDict
  /\ admins = EmptyDict
  /\ now = 12
  /\ pending_visit_add = EmptyDict
  /\ pending_admin_add = {}
  /\ pending_broadcast = EmptyDict
  /\ workers = IdleWorkers
  /\ files = NoFiles
  /\ recent_callback_keys = {}
  /\ ret = Ran("init", 0, RetNone)

\* One call of _alloc_random_card_number whose random attempts draw the given
\* numbers.
AllocRandomCardNumber(draws) ==
  /\ \E out \in alloc_random_card_number(cards.by_number, draws) :
       ret' = Ran("alloc_random_card_number", 0, [draws |-> draws, out |-> out])
  /\ UNCHANGED AllStores

\* ensure_level_card for a user; the random attempts draw the given numbers.
EnsureLevelCardDrawn(u, draws) ==
  /\ \E alloc \in AllocChoices(cards, u, draws) :
       \E r \in {ensure_level_card(cards, u, alloc)} :
         /\ cards' = r.cards
         /\ ret' = Ran("ensure_level_card", u, r.ret)
  /\ UNCHANGED NotCards

NextAlloc ==
  \/ \E draws \in AttemptDraws : AllocRandomCardNumber(draws)
  \/ \E u \in AllocUsers, draws \in AttemptDraws : EnsureLevelCardDrawn(u, draws)

SpecAlloc == InitAlloc /\ [][NextAlloc]_vars

\* The numbers of AllNumbers that registry c does not use.
FreeNumbers(c) == {NumberOf(key) : key \in {k \in AllKeys : k \notin DOMAIN c.by_number}}

\* C30: a call of the allocation returns a free number that is no repdigit
\* whenever the registry leaves one free in 0010..9998, the lowest of them when
\* every random attempt drew a repdigit or a number in use, and fails only when
\* none is free; ensure_level_card for a user without a card then fails as well
\* and leaves the registry as it was, and otherwise stores the card under a
\* number that was free.
C30_AllocationFindsFreeNumber ==
  [][/\ ret'.op = "alloc_random_card_number" =>
          /\ ret'.val.out = NoNumber <=> FreeNumbers(cards) = {}
          /\ ret'.val.out # NoNumber => NumberOf(ret'.val.out) \in FreeNumbers(cards)
          /\ (/\ FreeNumbers(cards) # {}
              /\ \A d \in ret'.val.draws : d \notin FreeNumbers(cards))
               => \A n \in FreeNumbers(cards) : NumberOf(ret'.val.out) <= n
     /\ (ret'.op = "ensure_level_card" /\ ~HasCard(cards, ret'.user)) =>
          IF FreeNumbers(cards) = {}
          THEN ret'.val = RetError /\ cards' = cards
          ELSE /\ ret'.val # RetError
               /\ HasCard(cards', ret'.user)
               /\ NumberOf(cards'.by_user[ret'.user]) \in FreeNumbers(cards)]_vars

\* The last free number went to one user, and the next user's call failed.
C30_Witness ==
  /\ ret.op = "ensure_level_card"
  /\ ret.val = RetError
  /\ FreeNumbers(cards) = {}
  /\ \E u \in AllocUsers : HasCard(cards, u)
  /\ ~HasCard(cards, ret.user)

----------------------------------------------------------------------------
(* Claims about callers that are inside a store at the same time.           *)

\* The events on record for user u in document us: visits, then broadcasts.
EventLog(us, u) ==
  IF u \in DOMAIN us THEN <<us[u].visit_events, us[u].broadcast_events>> ELSE <<<<>>, <<>>>>

\* C28: a _save writes the document its caller loaded and changed, so when the
\* file was saved by another call since that load, every other user's record is
\* back to what the caller loaded and the events saved in between are gone;
\* when the file is still what the caller loaded, as it always is when calls
\* run one at a time, every event on file before the save is on file after it.
C28_LaterSaveWinsSerialKeepsAll ==
  [][ret'.op = "save" =>
       /\ \A u \in (DOMAIN users \cup DOMAIN users') \ {ret'.user} :
            /\ u \in DOMAIN users' <=> u \in DOMAIN ret'.val.loaded
            /\ EventLog(users', u) = EventLog(ret'.val.loaded, u)
       /\ ret'.val.loaded = users =>
            \A u \in DOMAIN users :
              /\ u \in DOMAIN users'
              /\ IsPrefix(EventLog(users, u)[1], EventLog(users', u)[1])
              /\ IsPrefix(EventLog(users, u)[2], EventLog(users', u)[2])
       /\ EventsOf(users', ret'.user) = EventsOf(ret'.val.loaded, ret'.user) + 1]_vars

\* Both calls loaded the empty store; the visit of user 101 was saved first, and
\* the save of the broadcast for user 102 has just removed it.
C28_Witness ==
  /\ ret.op = "save"
  /\ ret.user = 102
  /\ ret.val.loaded # ret.val.replaced
  /\ EventLog(ret.val.replaced, 101)[1] # <<>>
  /\ EventLog(users, 101)[1] = <<>>
  /\ EventLog(users, 102)[2] # <<>>

\* The store file holds one whole document.
Complete(content) ==
  /\ Len(content) = DocParts
  /\ \E doc \in 1..MaxSaves : \A i \in 1..DocParts : content[i] = Part(doc, i)

\* C29: at every point of every save, the store file, once it exists, holds a
\* complete document: never a part of one, an empty file or parts of two.
C29_StoreFileAlwaysComplete ==
  files.target # None => Complete(files.content[Get(files.target)])

----------------------------------------------------------------------------
(* Claims about the next tier, the leaderboard and the inactive ranges.     *)

\* The thresholds of the tier table and their labels.
TierThresholds == {<<1, "IRON">>, <<5, "BRONZE">>, <<15, "SILVER">>, <<35, "GOLD">>}

\* C31: next_tier_info(v) is none exactly when v >= 35; otherwise it names the
\* label of the lowest threshold above v and the visits missing to it, at least
\* one, and tier_for_visits of v plus that many visits is the named label.
C31_NextTierIsFirstAbove ==
  ret.op = "next_tier_info" =>
    \E v \in {ret.val.visits} :
      /\ ret.val.next = None <=> v >= 35
      /\ \A n \in ret.val.next :
           /\ n[2] >= 1
           /\ <<v + n[2], n[1]>> \in TierThresholds
           /\ \A th \in TierThresholds : th[1] > v => th[1] >= v + n[2]
           /\ tier_for_visits(v + n[2])[1] = n[1]

\* One visit short of SILVER.
C31_Witness ==
  /\ ret.op = "next_tier_info"
  /\ ret.val.visits = 14
  /\ ret.val.next = Some(<<"SILVER", 1>>)

\* The entry carries a timestamp that is a date-time.
Readable(raw) == raw.form # "none" /\ raw.ts.form = "iso"

\* The year and month of the entry's timestamp on the clock of Tyumen.
TyumenMonth(raw) ==
  LET shift == IF raw.ts.offset = None THEN 0 ELSE TyumenOffset - Get(raw.ts.offset)
      at    == tyumen_date(raw.ts.local + shift)
  IN  <<at.year, at.month>>

\* The source tag of the entry; an entry without one is of the legacy source.
TagOf(raw) == IF raw.form = "dict" /\ raw.src # None THEN Get(raw.src) ELSE "lounge"

\* The entries of the list that are visits of the month and of the source.
VisitsOfMonth(events, ym, source) ==
  {i \in 1..Len(events) :
     Readable(events[i]) /\ TyumenMonth(events[i]) = ym /\ TagOf(events[i]) = source}

\* The item is a record under a key that is a number.
GoodItem(item) == item.rec.form = "dict" /\ AllDigits(item.uid)

\* C32: every row of top_users_by_visits_in_month(Y, M, source=S) carries the
\* number of the user's visit events whose timestamp, on the clock of Tyumen,
\* is of month M of year Y and whose source tag is S, an event without a tag
\* being of source "lounge"; and while the limit leaves room every user with
\* such an event has a row.
C32_CountsEventsOfMonthAndSource ==
  ret.op = "top_users_by_visits_in_month" =>
    \E ym \in {<<ret.val.year, ret.val.month>>} :
      /\ \A r \in 1..Len(ret.val.rows) :
           \E i \in 1..Len(users) :
             /\ GoodItem(users[i])
             /\ DecimalOf(users[i].uid) = ret.val.rows[r].user_id
             /\ ret.val.rows[r].visits =
                  Cardinality(VisitsOfMonth(users[i].rec.visit_events, ym, ret.val.source))
      /\ Len(ret.val.rows) < ret.val.limit =>
           \A i \in 1..Len(users) :
             (GoodItem(users[i])
                /\ VisitsOfMonth(users[i].rec.visit_events, ym, ret.val.source) # {})
               => \E r \in 1..Len(ret.val.rows) :
                    ret.val.rows[r].user_id = DecimalOf(users[i].uid)

\* Asked for March and "lounge": account 101 has the event a UTC server wrote
\* at 19:00 of the last of February, which is the first hour of March in Tyumen,
\* and an untagged event in the last hour of March; both count.
C32_Witness ==
  /\ ret.op = "top_users_by_visits_in_month"
  /\ <<ret.val.year, ret.val.month>> = <<2026, 3>>
  /\ ret.val.source = "lounge"
  /\ users[1].rec.visit_events =
       <<DictEvent(IsoTs(month_start(2026, 4) - 1, None), None),
         DictEvent(IsoTs(month_start(2026, 3) - TyumenOffset, Some(0)), Some("lounge"))>>
  /\ ret.val.rows[1] = [user_id |-> 101, visits |-> 2]

\* The items without those that cannot be counted, and the lists of the others
\* without the entries that cannot be counted.
RECURSIVE Cleaned(_)
Cleaned(xs) ==
  IF xs = <<>> THEN <<>>
  ELSE IF "rec" \in DOMAIN Head(xs)
  THEN IF GoodItem(Head(xs))
       THEN <<[Head(xs) EXCEPT !.rec.visit_events = Cleaned(@)]>> \o Cleaned(Tail(xs))
       ELSE Cleaned(Tail(xs))
  ELSE IF Readable(Head(xs)) THEN <<Head(xs)>> \o Cleaned(Tail(xs))
  ELSE Cleaned(Tail(xs))

\* C33: the leaderboard of a file with entries that cannot be counted (an event
\* whose timestamp is no date-time, a key that is no number, a value that is no
\* record) is the leaderboard of the same file without these entries.
C33_CorruptEntriesSkippedAlone ==
  ret.op = "top_users_by_visits_in_month" =>
    ret.val.rows = top_users_by_visits_in_month_raw(Cleaned(users), ret.val.year, ret.val.month,
                                                    Some(ret.val.source), ret.val.limit, FALSE)

\* A corrupt item stands between the two accounts and a corrupt event before
\* a visit of account 101; both accounts have their row.
C33_Witness ==
  /\ ret.op = "top_users_by_visits_in_month"
  /\ Len(users) = 3
  /\ ~GoodItem(users[2])
  /\ Len(users[1].rec.visit_events) = 2
  /\ ~Readable(users[1].rec.visit_events[1])
  /\ {ret.val.rows[r].user_id : r \in 1..Len(ret.val.rows)} = {101, 102}

\* User uid is active, not staff, not in cooldown, has a visit from the sources,
\* and the latest of these visits lies in [now - hi days, now - lo days).
InBand(uid, sources, lo, hi) ==
  /\ uid \in DOMAIN users
  /\ users[uid].unsubscribed_at = None
  /\ uid \notin staff_user_ids_known(admins, users)
  /\ ~CoolingDown(users, uid, 7, now)
  /\ VisitsFrom(uid, sources) # {}
  /\ \E i \in VisitsFrom(uid, sources) :
       /\ \A j \in VisitsFrom(uid, sources) :
            users[uid].visit_events[j].ts <= users[uid].visit_events[i].ts
       /\ now - hi * 24 <= users[uid].visit_events[i].ts
       /\ users[uid].visit_events[i].ts < now - lo * 24

\* C34 as stated: the inactive-range(min, max) segment is the set of the active
\* non-staff users, not in cooldown, whose last visit, of whatever source, lies
\* in [now - max days, now - min days).
C34_BandByLatestVisit ==
  (ret.op = "broadcast_targets" /\ KindSeg(ret.val.kind) = "inactive_range")
  => Range(ret.val.targets) =
       {uid \in DOMAIN users :
          InBand(uid, {BOT_SOURCE, OTHER_BOT_SOURCE}, KindDays(ret.val.kind), KindMaxDays(ret.val.kind))}

\* C34 amended: the inactive-range(min, max) segment is the set of the active
\* non-staff users, not in cooldown, whose last visit of this bot's source lies
\* in [now - max days, now - min days), visits the other bot recorded not being
\* looked at; the ranges 7-14 and 14-30 asked at the same instant share no
\* user, and a user without a visit of this bot's source is in neither.
C34_BandByLatestOwnVisit ==
  (ret.op = "broadcast_targets" /\ KindSeg(ret.val.kind) = "inactive_range")
  => /\ Range(ret.val.targets) =
          {uid \in DOMAIN users :
             InBand(uid, {BOT_SOURCE}, KindDays(ret.val.kind), KindMaxDays(ret.val.kind))}
     /\ Range(broadcast_targets(users, admins, cards, RangeKind(7, 14), now))
          \cap Range(broadcast_targets(users, admins, cards, RangeKind(14, 30), now)) = {}
     /\ \A uid \in Range(ret.val.targets) : VisitsFrom(uid, {BOT_SOURCE}) # {}

\* Asked for 7-14 days: user 101, last seen exactly 14 days ago, is in; user
\* 102, last seen exactly 7 days ago, is not.
C34_Witness ==
  /\ ret.op = "broadcast_targets"
  /\ ret.val.kind = RangeKind(7, 14)
  /\ users[101].visit_events = <<VisitAgo(None, 336)>>
  /\ users[102].visit_events = <<VisitAgo(Some(BOT_SOURCE), 168)>>
  /\ users[102].unsubscribed_at = None
  /\ admins = EmptyDict
  /\ ret.val.targets = <<101>>

----------------------------------------------------------------------------
(* Claims about the staff set, the broadcast flow and the pending inputs.   *)

\* The key of the role store for a profile username.
RoleKey(name) ==
  CASE name = "Alice" -> "alice"
    [] name = "Bobby" -> "bobby"
    [] name = "owner" -> "owner"

\* C35: _staff_user_ids_known returns the superadmin ids, the ids synced into
\* admin records, and the ids of the active users whose stored username is the
\* username of an admin, and nothing else; an admin added by username whose id
\* is not synced is in the set once the event store holds their username.
C35_StaffSetIsUnionOfThree ==
  ret.op = "staff_user_ids_known" =>
    ret.val = {864921585}
              \cup {uid \in StaffAccounts : \E k \in DOMAIN admins : admins[k].user_id = Some(uid)}
              \cup {uid \in DOMAIN users :
                      /\ users[uid].unsubscribed_at = None
                      /\ users[uid].username # None
                      /\ RoleKey(Get(users[uid].username)) \in DOMAIN admins}

\* @alice is an admin whose id was never synced; the event store knows account
\* 101 as Alice, and 101 is in the staff set.  Account 102, unsubscribed and
\* added as @bobby, is not.
C35_Witness ==
  /\ ret.op = "staff_user_ids_known"
  /\ DOMAIN admins = {"alice", "bobby"}
  /\ admins["alice"].user_id = None
  /\ admins["bobby"].user_id = None
  /\ 101 \in DOMAIN users /\ users[101].username = Some("Alice")
  /\ 102 \in DOMAIN users /\ users[102].unsubscribed_at # None
  /\ ret.val = {864921585, 101}

----------------------------------------------------------------------------
(* The send callback step by step.  The handlers of the bot run on the      *)
(* worker threads of the TeleBot pool; a thread can be switched at every    *)
(* file read and every network call, so what handle_admin_broadcast_send    *)
(* does between them is one step of a worker: the guard, the read of the    *)
(* chat's pending state, the filters with the pop, one copy_message.        *)

\* The messages of the chat that carry the "send" button: the answer to the
\* captured post and the answer "post already received" to a later message.
SendButtons == {1, 2}
SendKinds == {"all", "contest"}
SendOwner == 864921585
SendData == "admin_broadcast_send"

\* What the chat's pending state can be when the button is pressed: nothing, a
\* segment just selected, a segment waiting for the post, a captured post.
PendingBeforeSend ==
  {EmptyDict}
  \cup {[c \in {SendOwner} |-> st] :
          st \in {PendingBroadcast(kind, <<101, 102>>, stage[1], stage[2]) :
                    kind \in SendKinds,
                    stage \in {<<None, FALSE>>, <<Some("await_post"), FALSE>>,
                               <<Some("confirm"), TRUE>>}}}

InitSend ==
  \E g1 \in {guard_sync(EmptyDict, EmptyDict, [by_user |-> EmptyDict, by_number |-> EmptyDict],
                        101, TgUsername(101), Fmt04(10))} :
    \E g2 \in {guard_sync(g1.users, g1.admins, g1.cards, 102, TgUsername(102), Fmt04(10))} :
      \E g3 \in {guard_sync(g2.users, g2.admins, g2.cards,
                            SendOwner, TgUsername(SendOwner), Fmt04(10))} :
        /\ cards = g3.cards
        /\ users = g3.users
        /\ admins = g3.admins
        /\ now = 12
        /\ pending_visit_add = EmptyDict
        /\ pending_admin_add = {}
        /\ pending_broadcast \in PendingBeforeSend
        /\ workers = IdleWorkers
        /\ files = NoFiles
        /\ recent_callback_keys = {}
        /\ ret = Ran("init", 0, RetNone)

SendFrame == UNCHANGED <<now, pending_visit_add, pending_admin_add, files>>

\* _callback_guard for the button of message m: the key test, then the sender's
\* records.  The data starts with "admin_broadcast": the pending state stays.
SendGuard(w, m) ==
  /\ workers[w].pc = "idle"
  /\ SendFrame
  /\ UNCHANGED pending_broadcast
  /\ IF <<SendOwner, SendData, m>> \in recent_callback_keys
     THEN /\ ret' = Ran("callback_guard", SendOwner, [kind |-> "duplicate", worker |-> w])
          /\ UNCHANGED <<cards, users, admins, workers, recent_callback_keys>>
     ELSE \E g \in {guard_sync(users, admins, cards, SendOwner, TgUsername(SendOwner), Fmt04(10))} :
          /\ recent_callback_keys' = recent_callback_keys \cup {<<SendOwner, SendData, m>>}
          /\ cards' = g.cards
          /\ users' = g.users
          /\ admins' = g.admins
          /\ workers' = [workers EXCEPT ![w] = [Idle EXCEPT !.pc = "guarded",
                                                            !.job = <<SendData, m>>]]
          /\ ret' = Ran("callback_guard", SendOwner, [kind |-> "passed", worker |-> w])

\* Lines 2434-2454: state = _pending_broadcast.get(chat); no targets, no post.
SendRead(w) ==
  /\ workers[w].pc = "guarded"
  /\ SendFrame
  /\ UNCHANGED <<cards, users, admins, recent_callback_keys>>
  /\ IF SendOwner \notin DOMAIN pending_broadcast \/ pending_broadcast[SendOwner].targets = <<>>
     THEN /\ pending_broadcast' = Pop(pending_broadcast, SendOwner)
          /\ workers' = [workers EXCEPT ![w] = Idle]
          /\ ret' = Ran("handle_admin_broadcast_send", SendOwner,
                        [kind |-> "session_reset", worker |-> w])
     ELSE IF ~pending_broadcast[SendOwner].post
     THEN /\ workers' = [workers EXCEPT ![w] = Idle]
          /\ ret' = Ran("handle_admin_broadcast_send", SendOwner,
                        [kind |-> "post_missing", worker |-> w])
          /\ UNCHANGED pending_broadcast
     ELSE /\ workers' = [workers EXCEPT ![w].pc = "read",
                                        ![w].data = pending_broadcast[SendOwner]]
          /\ ret' = Ran("handle_admin_broadcast_send", SendOwner,
                        [kind |-> "state_read", worker |-> w])
          /\ UNCHANGED pending_broadcast

\* Lines 2456-2476: the staff filter and the cooldown filter read the stores of
\* this moment; then the pop, on every path.
SendFilter(w) ==
  /\ workers[w].pc = "read"
  /\ SendFrame
  /\ UNCHANGED <<cards, users, admins, recent_callback_keys>>
  /\ pending_broadcast' = Pop(pending_broadcast, SendOwner)
  /\ \E targets \in {send_targets(users, admins, workers[w].data.targets,
                                   workers[w].data.kind, now)} :
       IF targets = <<>>
       THEN /\ workers' = [workers EXCEPT ![w] = Idle]
            /\ ret' = Ran("handle_admin_broadcast_send", SendOwner,
                          [kind |-> "no_targets", worker |-> w])
       ELSE /\ workers' = [workers EXCEPT ![w].pc = "deliver", ![w].loaded = targets]
            /\ ret' = Ran("handle_admin_broadcast_send", SendOwner,
                          [kind |-> "started", worker |-> w])

\* Lines 2479-2492: one turn of the delivery loop; copy_message can fail for a
\* guest who blocked the bot, and then nothing is recorded.
SendDeliver(w) ==
  /\ workers[w].pc = "deliver"
  /\ workers[w].loaded # <<>>
  /\ SendFrame
  /\ UNCHANGED <<cards, admins, pending_broadcast, recent_callback_keys>>
  /\ workers' = [workers EXCEPT ![w].loaded = Tail(workers[w].loaded)]
  /\ \E uid \in {Head(workers[w].loaded)} :
     \E ok \in IF uid \in UnreachableGuests THEN BOOLEAN ELSE {TRUE} :
       /\ users' = IF ok
                   THEN record_broadcast_sent(users, uid,
                          IF workers[w].data.kind = "" THEN "broadcast" ELSE workers[w].data.kind,
                          Some(BOT_SOURCE), now)
                   ELSE users
       /\ ret' = Ran("copy_message", uid, [kind |-> IF ok THEN "sent" ELSE "failed", worker |-> w])

\* Lines 2494-2500: the report after the loop.
SendDone(w) ==
  /\ workers[w].pc = "deliver"
  /\ workers[w].loaded = <<>>
  /\ SendFrame
  /\ UNCHANGED <<cards, users, admins, pending_broadcast, recent_callback_keys>>
  /\ workers' = [workers EXCEPT ![w] = Idle]
  /\ ret' = Ran("handle_admin_broadcast_send", SendOwner, [kind |-> "done", worker |-> w])

\* More than window_s seconds pass: no key is recent any more.
WindowElapses ==
  /\ recent_callback_keys # {}
  /\ recent_callback_keys' = {}
  /\ ret' = Ran("window_elapses", 0, RetNone)
  /\ UNCHANGED <<cards, users, admins, now, pending_visit_add, pending_admin_add, pending_broadcast,
                 workers, files>>

NextSend ==
  \/ \E w \in WorkerIds, m \in SendButtons : SendGuard(w, m)
  \/ \E w \in WorkerIds : SendRead(w)
  \/ \E w \in WorkerIds : SendFilter(w)
  \/ \E w \in WorkerIds : SendDeliver(w)
  \/ \E w \in WorkerIds : SendDone(w)
  \/ WindowElapses

SpecSend == InitSend /\ [][NextSend]_vars

\* C36: a broadcast is delivered only from a pending state with targets and a
\* captured post; the pending state is gone before the first copy_message, a
\* repeated "send" callback delivers nothing, and no recipient gets the post
\* of one confirmed broadcast twice.
C36_DeliveredOncePerConfirmedBroadcast ==
  /\ \A w \in WorkerIds :
       workers[w].pc = "deliver" =>
         /\ workers[w].data.post
         /\ workers[w].data.targets # <<>>
         /\ SendOwner \notin DOMAIN pending_broadcast
  /\ \A uid \in {101, 102} : Len(users[uid].broadcast_events) <= 1

----------------------------------------------------------------------------
(* The visit flow from empty stores with promotions and demotions: every    *)
(* visit is one confirmed by handle_admin_visit_input of this bot.          *)

NextCounters ==
  \/ \E u \in Users : HandleRegisterCard(u)
  \/ \E u \in Users : HandleAdminAddVisit(u, "admin_add_visit")
  \/ \E u \in Users : \E text \in Texts(cards) : HandleAdminVisitInput(u, text)
  \/ \E u \in superadmin_ids : HandleAdminAdminsAdd(u)
  \/ \E u \in superadmin_ids : HandleAdminAddInput(u, "@alice")
  \/ \E u \in superadmin_ids : HandleAdminDemote(u, "alice")
  \/ Tick

SpecCounters == Init /\ [][NextCounters]_vars

\* The three counts of a user: on the card, in the event store, in the log.
CardVisitsOf(c, u) == IF HasCard(c, u) THEN c.by_number[c.by_user[u]].visits ELSE 0
StoreVisitsOf(us, u) == IF u \in DOMAIN us THEN us[u].visits ELSE 0
LoggedVisitsOf(us, u) == IF u \in DOMAIN us THEN Len(us[u].visit_events) ELSE 0

CountersAgree ==
  \A u \in Users :
    /\ CardVisitsOf(cards, u) = StoreVisitsOf(users, u)
    /\ StoreVisitsOf(users, u) = LoggedVisitsOf(users, u)

\* What a run of the visit-input handler adds for user u: 1 when it answered
\* that the visit of u is counted, 0 otherwise.
AddedBy(u) ==
  IF /\ ret'.op = "handle_admin_visit_input"
     /\ ret'.val.kind = "counted"
     /\ ret'.val.target = Some(u)
  THEN 1 ELSE 0

\* C37: with all visits confirmed through the visit-input handler from empty
\* stores, the visits of the card, the visits of the event store and the
\* number of visit events of a user are equal after every handler run; an
\* accepted confirmation adds 1 to each of the three, every other run adds 0,
\* with or without a staff override on the card.
C37_ThreeCountersMoveTogether ==
  /\ []CountersAgree
  /\ [][\A u \in Users :
          /\ CardVisitsOf(cards', u) = CardVisitsOf(cards, u) + AddedBy(u)
          /\ StoreVisitsOf(users', u) = StoreVisitsOf(users, u) + AddedBy(u)
          /\ LoggedVisitsOf(users', u) = LoggedVisitsOf(users, u) + AddedBy(u)]_vars

\* The second visit of admin 101 was just counted on a card that carries the
\* staff override; all three counts are 2.
C37_Witness ==
  /\ ret.op = "handle_admin_visit_input"
  /\ ret.val.kind = "counted"
  /\ ret.val.target = Some(101)
  /\ HasCard(cards, 101)
  /\ cards.by_number[cards.by_user[101]].staff_gold
  /\ CardVisitsOf(cards, 101) = 2
  /\ StoreVisitsOf(users, 101) = 2
  /\ LoggedVisitsOf(users, 101) = 2

----------------------------------------------------------------------------
(* Interactions that do nothing but pass the guard, between promotions and  *)
(* demotions of admins.                                                     *)

\* The messages of a chat that carry the "main_menu" button.
MenuButtons == {1}

\* handle_menu: data is "main_menu", pressed by u on message m of their chat.
\* _callback_guard drops the chat's pending broadcast, then tests the key; the
\* menu text that follows changes nothing.
HandleMenu(u, m) ==
  /\ pending_broadcast' = callback_pending(pending_broadcast, u, FALSE)
  /\ UNCHANGED <<now, pending_visit_add, pending_admin_add, workers, files>>
  /\ IF <<u, "main_menu", m>> \in recent_callback_keys
     THEN /\ ret' = Ran("handle_menu", u,
                        [kind |-> "duplicate", dropped |-> u \in DOMAIN pending_broadcast])
          /\ UNCHANGED <<cards, users, admins, recent_callback_keys>>
     ELSE \E alloc \in AllocChoices(cards, u, VisitDraws) :
          \E g \in {guard_sync(users, admins, cards, u, TgUsername(u), alloc)} :
            /\ recent_callback_keys' = recent_callback_keys \cup {<<u, "main_menu", m>>}
            /\ cards' = g.cards
            /\ users' = g.users
            /\ admins' = g.admins
            /\ ret' = Ran("handle_menu", u,
                          [kind |-> "menu", dropped |-> u \in DOMAIN pending_broadcast])

NextSync ==
  \/ \E u \in RoleUsers, m \in MenuButtons : HandleMenu(u, m)
  \/ \E u \in RoleUsers : HandleAdminAdminsAdd(u)
  \/ \E u \in superadmin_ids, text \in RoleTexts : HandleAdminAddInput(u, text)
  \/ \E u \in RoleUsers, data \in DemoteNames : HandleAdminDemote(u, data)
  \/ WindowElapses

SpecSync == InitRoles /\ [][NextSync]_vars

\* The sender of the step just taken passed the guard.
PassedGuard(u) ==
  /\ ret'.user = u
  /\ ret'.op \in {"handle_menu", "handle_admin_admins_add", "handle_admin_add_input",
                  "handle_admin_demote"}
  /\ ret'.val.kind # "duplicate"

\* Staff after the step: a superadmin, or an account whose username is that of
\* an admin record.
StaffAfter(u) == u = 864921585 \/ RoleKey(Get(TgUsername(u))) \in DOMAIN admins'

----------------------------------------------------------------------------
(* The superadmin selects a segment, starts the post capture, sends posts,  *)
(* confirms, and presses the menu button in between, once or twice in a     *)
(* row; a guest presses the menu button too.                                *)

CancelActions == {"all", "contest"}

NextCancel ==
  \/ \E u \in superadmin_ids, action \in CancelActions : HandleAdminBroadcastRoot(u, action)
  \/ \E u \in superadmin_ids : HandleAdminBroadcastMake(u)
  \/ \E u \in superadmin_ids, text \in PostTexts : HandleAdminBroadcastText(u, text)
  \/ \E u \in superadmin_ids : HandleAdminBroadcastSend(u)
  \/ \E u \in BroadcastUsers, m \in MenuButtons : HandleMenu(u, m)
  \/ WindowElapses

SpecCancel == InitBroadcast /\ [][NextCancel]_vars

\* C39: a callback whose data does not start with "admin_broadcast" removes the
\* pending broadcast of its chat, whether it then passes the duplicate test or
\* not; a message is taken as the post of a broadcast only in a chat that
\* holds a pending broadcast, so not after such a callback.
C39_OtherCallbackCancelsBroadcast ==
  [][/\ ret'.op = "handle_menu" => ret'.user \notin DOMAIN pending_broadcast'
     /\ ret'.op = "handle_admin_broadcast_text" =>
          /\ ret'.user \in DOMAIN pending_broadcast
          /\ ~(ret.op = "handle_menu" /\ ret.user = ret'.user)]_vars

\* The menu button was pressed again within the window while a broadcast was
\* pending: the callback is dropped as a duplicate and the broadcast is gone.
C39_Witness ==
  /\ ret.op = "handle_menu"
  /\ ret.val.kind = "duplicate"
  /\ ret.val.dropped
  /\ 864921585 \notin DOMAIN pending_broadcast

----------------------------------------------------------------------------
(* The two input flows of a chat: the buttons that start them and the       *)
(* message that follows.  A message of a chat that waits for a username     *)
(* goes to handle_admin_add_input, which is registered first; otherwise a   *)
(* message of a chat that waits for a card number goes to                   *)
(* handle_admin_visit_input.                                                *)

FlowData == {"admin_add_visit", "admin_add_visit_admins"}

NextFlows ==
  \/ \E u \in Users : HandleRegisterCard(u)
  \/ \E u \in Users, data \in FlowData : HandleAdminAddVisit(u, data)
  \/ \E u \in Users : HandleAdminAdminsAdd(u)
  \/ \E u \in Users, text \in AdminTexts : HandleAdminAddInput(u, text)
  \/ \E u \in Users : \E text \in Texts(cards) :
       u \notin pending_admin_add /\ HandleAdminVisitInput(u, text)
  \/ Tick

SpecFlows == Init /\ [][NextFlows]_vars

\* C40: no chat waits for a username and for a card number at once, and no
\* message is taken as a username in a chat that waits for a card number.
C40_AtMostOnePendingInput ==
  \A u \in Users : ~(u \in pending_admin_add /\ u \in DOMAIN pending_visit_add)

====
